---- MODULE Spec2Model ----
(***************************************************************************)
(* Request scheduling, caching and real-time broadcast core of the EVM     *)
(* wallet backend: the per-network task queue (src/utils/queue.js), the    *)
(* bounded cache and RPC cache policy (src/utils/cache.js) and the         *)
(* WebSocket subscription hub (src/unnamed/part_008).                      *)
(*                                                                         *)
(* The worker pool behind a network queue is the better-queue package,     *)
(* whose code is not part of the sources; its scheduling (StartTask,       *)
(* TaskCallback, RetryTimer, QueueGetStats) is modelled from section 4.3   *)
(* of the specification.  Everything else is translated from the sources.  *)
(***************************************************************************)
EXTENDS Integers, Sequences, FiniteSets, TLC

VARIABLES
  now,                 \* Date.now(), in milliseconds
  networkQueues,       \* queue.js: networkKey -> queue object (lazily created)
  tasks,               \* every task pushed so far, in push order
  cache,               \* MemoryCache.cache: the Map, in insertion order
  stats,               \* MemoryCache.stats
  options,             \* MemoryCache.ttl and MemoryCache.maxSize
  ret,                 \* what the last cache call returned
  activeSubscriptions, \* part_008: topic -> key -> set of socket ids
  clientSubscriptions, \* part_008: per socket, topic -> set of keys
  requests,            \* part_008: per socket, requestLimiter.requests
  connections,         \* part_008: connectionLimits.connections (IP -> count)
  sockets,             \* per socket id: "new" | "open" | "closed" | "refused"
  listeners,           \* block listeners and gas-price timers, per network key
  emitted,             \* per socket id, the events sent to the socket
  last                 \* the last socket event handled and how it ended

queueVars == <<networkQueues, tasks>>
cacheVars == <<cache, stats, options, ret>>
hubVars   == <<activeSubscriptions, clientSubscriptions, requests,
               connections, sockets, listeners, emitted, last>>
vars      == <<now, queueVars, cacheVars, hubVars>>

(***************************************************************************)
(* Bounds of the model.                                                    *)
(***************************************************************************)
MaxTasks    == 4       \* tasks pushed in one run
MaxFailures == 3       \* failed attempts of work functions in one run
MaxFlowTasks == 5      \* tasks pushed in one run without failures
StartTime   == 100000  \* Date.now() when the process starts
MaxTicks    == 3       \* clock steps in one run of a cache specification
MaxCacheOps == 5       \* get and set calls counted by one run
MaxIdTasks  == 3       \* tasks pushed in one run that records task ids
MaxIdTicks  == 2       \* milliseconds that pass in such a run
MaxFee      == 4       \* largest fee value of the fee data tried
MaxTxTasks  == 2       \* transaction look-ups enqueued in one run
MaxRecoverSockets == 21 \* connection attempts of one IP in one run
MaxWalletTasks == 2     \* wallet-service operations called in one run
MaxSendTasks == 2       \* sendTransaction requests in one run
CacheMaxSize == 2      \* options.maxSize of the MemoryCache under test
CacheTtl    == 2       \* options.ttl of the MemoryCache under test

(***************************************************************************)
(* NETWORK TASK QUEUE                                                      *)
(***************************************************************************)
Networks     == {"ethereum"}
NetworkTypes == {"mainnet", "sepolia"}

DefaultConcurrency == 3
MaxRetries == 3
RetryDelay == 1000

\* Mutant: the key leaves the network type out.
NetworkKeyNoType(network, networkType) == network

\* `${network}:${networkType}`
NetworkKey(network, networkType) == network \o ":" \o networkType

\* Mutant: the queue is created with one worker too many.
QueueOptionsOneMore(concurrency) ==
  [concurrent |-> concurrency + 1, maxRetries |-> MaxRetries,
   retryDelay |-> RetryDelay]

\* The options getNetworkQueue hands to the queue constructor.
QueueOptions(concurrency) ==
  [concurrent |-> concurrency, maxRetries |-> MaxRetries,
   retryDelay |-> RetryDelay]

NewQueue(concurrency) ==
  [opts    |-> QueueOptions(concurrency),
   pending |-> <<>>,
   total   |-> 0, finished |-> 0, failed |-> 0, retries |-> 0]

\* getNetworkQueue: the registry after the call (the queue is created on the
\* first call for a key and kept afterwards).
GetNetworkQueue(nq, networkKey, concurrency) ==
  IF networkKey \in DOMAIN nq
    THEN nq
    ELSE [k \in DOMAIN nq \cup {networkKey} |->
            IF k = networkKey THEN NewQueue(concurrency) ELSE nq[k]]

RunningOf(networkKey) ==
  {i \in DOMAIN tasks : tasks[i].key = networkKey /\ tasks[i].st = "running"}

\* The task object and the promise of one enqueueNetworkRequest call.  The
\* model names a task by its position in push order; the id string the
\* code gives it is added by TaskWithId where it matters.
QueueTask(network, networkType, cb) ==
  [st      |-> "queued",
   network |-> network, networkType |-> networkType,
   key     |-> NetworkKey(network, networkType),
   retries |-> 0,
   promise |-> "pending", value |-> "none",
   cb      |-> cb]

\* queue.push(task) on the queue of `${network}:${networkType}`.
Push(network, networkType, task) ==
  LET networkKey == NetworkKey(network, networkType)
      nq         == GetNetworkQueue(networkQueues, networkKey, DefaultConcurrency)
      i          == Len(tasks) + 1
  IN  /\ tasks' = Append(tasks, task)
      /\ networkQueues' =
           [nq EXCEPT ![networkKey].pending = Append(@, i),
                      ![networkKey].total   = @ + 1]

\* enqueueNetworkRequest(network, networkType, taskFn): the promise is created
\* pending and the task is pushed on the queue of `${network}:${networkType}`.
\* cb names the continuation (.then / .catch) the caller attaches.
EnqueueNetworkRequest(network, networkType, cb) ==
  Push(network, networkType, QueueTask(network, networkType, cb))

\* Mutant: the worker takes the task pushed last.
StartTaskLifo(networkKey) ==
  /\ networkKey \in DOMAIN networkQueues
  /\ networkQueues[networkKey].pending # <<>>
  /\ Cardinality(RunningOf(networkKey)) < networkQueues[networkKey].opts.concurrent
  /\ LET pending == networkQueues[networkKey].pending
         i == pending[Len(pending)]
     IN  /\ tasks' = [tasks EXCEPT ![i].st = "running"]
         /\ networkQueues' =
              [networkQueues EXCEPT
                 ![networkKey].pending = SubSeq(pending, 1, Len(pending) - 1)]

\* A worker of the key's pool picks the head of the pending list when fewer
\* than `concurrent` tasks of the key are running.
StartTask(networkKey) ==
  /\ networkKey \in DOMAIN networkQueues
  /\ networkQueues[networkKey].pending # <<>>
  /\ Cardinality(RunningOf(networkKey)) < networkQueues[networkKey].opts.concurrent
  /\ LET i == Head(networkQueues[networkKey].pending)
     IN  /\ tasks' = [tasks EXCEPT ![i].st = "running"]
         /\ networkQueues' =
              [networkQueues EXCEPT ![networkKey].pending = Tail(@)]

\* The process function of the queue: await task.fn(), then cb(null, result),
\* or cb(error) when the work function throws.  ok is the outcome of this
\* attempt of the work function.
Process(i, ok) ==
  IF ok THEN [err |-> "none", result |-> <<"result", i>>]
        ELSE [err |-> <<"error", i, tasks[i].retries + 1>>, result |-> "none"]

\* Mutant: both ticket events resolve the promise.
SettleResolveOnly(event, payload) == [promise |-> "resolved", value |-> payload]

\* The promise of enqueueNetworkRequest: 'finish' resolves it, 'failed'
\* rejects it.
Settle(event, payload) ==
  IF event = "finish" THEN [promise |-> "resolved", value |-> payload]
                      ELSE [promise |-> "rejected", value |-> payload]

\* What the queue does with the answer of the process function: success ends
\* the task and fires 'finish'; a failure is counted, and the task either
\* waits retryDelay for another attempt or, with maxRetries attempts failed,
\* ends and fires 'failed'.
TaskCallback(i, answer) ==
  LET k == tasks[i].key
      q == networkQueues[k]
  IN  IF answer.err = "none"
        THEN /\ tasks' = [tasks EXCEPT
                            ![i].st = "finished",
                            ![i].promise = Settle("finish", answer.result).promise,
                            ![i].value   = Settle("finish", answer.result).value]
             /\ networkQueues' = [networkQueues EXCEPT ![k].finished = @ + 1]
        ELSE IF tasks[i].retries + 1 >= q.opts.maxRetries
          THEN /\ tasks' = [tasks EXCEPT
                              ![i].st = "failed",
                              ![i].retries = @ + 1,
                              ![i].promise = Settle("failed", answer.err).promise,
                              ![i].value   = Settle("failed", answer.err).value]
               /\ networkQueues' = [networkQueues EXCEPT ![k].failed = @ + 1]
          ELSE /\ tasks' = [tasks EXCEPT ![i].st = "retrying",
                                         ![i].retries = @ + 1]
               /\ networkQueues' = [networkQueues EXCEPT ![k].retries = @ + 1]

\* One attempt of a running task ends.
WorkerDone(i, ok) ==
  /\ i \in DOMAIN tasks
  /\ tasks[i].st = "running"
  /\ TaskCallback(i, Process(i, ok))

\* retryDelay has passed: the task is pending again.
RetryTimer(i) ==
  /\ i \in DOMAIN tasks
  /\ tasks[i].st = "retrying"
  /\ tasks' = [tasks EXCEPT ![i].st = "queued"]
  /\ networkQueues' =
       [networkQueues EXCEPT ![tasks[i].key].pending = Append(@, i)]

\* queue.getStats() of one queue object.
QueueGetStats(networkKey) ==
  LET q == networkQueues[networkKey]
  IN  [total    |-> q.total,
       running  |-> Cardinality(RunningOf(networkKey)),
       pending  |-> Len(q.pending),
       finished |-> q.finished,
       failed   |-> q.failed,
       retries  |-> q.retries]

\* Mutant: the completed and failed counts are read from each other's field.
GetQueueStatsSwapped ==
  [networkKey \in DOMAIN networkQueues |->
     LET queueStats == QueueGetStats(networkKey)
     IN  [total     |-> queueStats.total,
          running   |-> queueStats.running,
          queued    |-> queueStats.pending,
          completed |-> queueStats.failed,
          failed    |-> queueStats.finished,
          retries   |-> queueStats.retries]]

\* getQueueStats(): the statistics of every queue created so far.
GetQueueStats ==
  [networkKey \in DOMAIN networkQueues |->
     LET queueStats == QueueGetStats(networkKey)
     IN  [total     |-> queueStats.total,
          running   |-> queueStats.running,
          queued    |-> queueStats.pending,
          completed |-> queueStats.finished,
          failed    |-> queueStats.failed,
          retries   |-> queueStats.retries]]

ZeroStats == [hits |-> 0, misses |-> 0, sets |-> 0, evictions |-> 0]

\* The registries of the subscription hub when the server starts.
HubStart ==
  [activeSubscriptions |->
     [balances |-> <<>>, pendingTxs |-> <<>>, blocks |-> <<>>, gasPrice |-> <<>>],
   listeners |-> [blocks |-> <<>>, gasPrice |-> <<>>, pendingTxs |-> <<>>]]

\* The process after start-up: no queue, an empty rpcCache, no socket.
InitQueue ==
  /\ now = StartTime
  /\ networkQueues = <<>>
  /\ tasks = <<>>
  /\ cache = <<>>
  /\ stats = ZeroStats
  /\ options = [ttl |-> 5000, maxSize |-> 1000]
  /\ ret = [op |-> "none"]
  /\ activeSubscriptions = HubStart.activeSubscriptions
  /\ clientSubscriptions = <<>>
  /\ requests = <<>>
  /\ connections = <<>>
  /\ sockets = <<>>
  /\ listeners = HubStart.listeners
  /\ emitted = <<>>
  /\ last = [event |-> "none", socket |-> "none", outcome |-> "none"]

\* The continuation of a service or controller call: no socket is involved.
Caller == [event |-> "caller", socket |-> "none", key |-> "none"]

\* A service or controller call that goes through the queue.
Request(network, networkType) ==
  /\ Len(tasks) < MaxTasks
  /\ EnqueueNetworkRequest(network, networkType, Caller)
  /\ UNCHANGED <<now, cacheVars, hubVars>>

Start(networkKey) ==
  /\ StartTask(networkKey)
  /\ UNCHANGED <<now, cacheVars, hubVars>>

RECURSIVE SumRetries(_)
SumRetries(ts) ==
  IF ts = <<>> THEN 0 ELSE Head(ts).retries + SumRetries(Tail(ts))

\* The attempts of work functions that have failed so far.
FailedAttempts == SumRetries(tasks)

Done(i, ok) ==
  /\ ok \/ FailedAttempts < MaxFailures
  /\ WorkerDone(i, ok)
  /\ UNCHANGED <<now, cacheVars, hubVars>>

Retry(i) ==
  /\ RetryTimer(i)
  /\ UNCHANGED <<now, cacheVars, hubVars>>

NextQueue ==
  \/ \E network \in Networks, networkType \in NetworkTypes :
       Request(network, networkType)
  \/ \E networkKey \in DOMAIN networkQueues : Start(networkKey)
  \/ \E i \in DOMAIN tasks, ok \in BOOLEAN : Done(i, ok)
  \/ \E i \in DOMAIN tasks : Retry(i)

SpecQueue == InitQueue /\ [][NextQueue]_vars

\* The same queue fed by callers whose work functions never fail.
FlowRequest(network, networkType) ==
  /\ Len(tasks) < MaxFlowTasks
  /\ EnqueueNetworkRequest(network, networkType, Caller)
  /\ UNCHANGED <<now, cacheVars, hubVars>>

FlowStart == \E networkKey \in DOMAIN networkQueues : Start(networkKey)

FlowDone == \E i \in DOMAIN tasks : Done(i, TRUE)

NextFlow ==
  \/ \E network \in Networks, networkType \in NetworkTypes :
       FlowRequest(network, networkType)
  \/ FlowStart
  \/ FlowDone

\* A free worker takes a pending task, and a work function that does not
\* fail returns.
SpecFlow ==
  /\ InitQueue /\ [][NextFlow]_vars
  /\ WF_vars(FlowStart) /\ WF_vars(FlowDone)

(***************************************************************************)
(* Claims about the network task queue.                                    *)
(***************************************************************************)
TasksOf(network, networkType) ==
  {i \in DOMAIN tasks :
     tasks[i].network = network /\ tasks[i].networkType = networkType}

\* C1: for every network key, the number of tasks of the key whose work
\* function is executing at the same time never exceeds 3, the limit
\* getNetworkQueue creates the queue with.
C1_ConcurrencyBound ==
  \A network \in Networks, networkType \in NetworkTypes :
    Cardinality({i \in TasksOf(network, networkType) :
                   tasks[i].st = "running"}) <= DefaultConcurrency

\* A burst: the limit is reached while a further task of the key waits.
C1_Witness ==
  \E network \in Networks, networkType \in NetworkTypes :
    /\ Cardinality({i \in TasksOf(network, networkType) :
                      tasks[i].st = "running"}) = DefaultConcurrency
    /\ \E i \in TasksOf(network, networkType) : tasks[i].st = "queued"

C2_Outcome ==
  \A i \in DOMAIN tasks :
    /\ tasks[i].retries = MaxRetries =>
          /\ tasks[i].st = "failed"
          /\ tasks[i].promise = "rejected"
          /\ tasks[i].value = <<"error", i, MaxRetries>>
    /\ (tasks[i].st = "finished" /\ tasks[i].retries <= MaxRetries - 1) =>
          /\ tasks[i].promise = "resolved"
          /\ tasks[i].value = <<"result", i>>

C2_Terminal ==
  \A i \in DOMAIN tasks :
    tasks[i].promise = "rejected" =>
      /\ tasks'[i] = tasks[i]
      /\ \A k \in DOMAIN networkQueues' :
           \A j \in DOMAIN networkQueues'[k].pending :
             networkQueues'[k].pending[j] # i

\* C2: a task whose work function has failed maxRetries = 3 times has its
\* promise rejected with the error of the third attempt and is never queued
\* or run again; a task that succeeds after at most maxRetries - 1 failures
\* has its promise resolved with the result of the work function.
C2_RetryThenSettle == [](C2_Outcome) /\ [][C2_Terminal]_vars

\* One task rejected after three failures.
C2_Witness ==
  \E i \in DOMAIN tasks :
    /\ tasks[i].retries = MaxRetries
    /\ tasks[i].promise = "rejected"

StartOf(network, networkType) ==
  \E networkKey \in DOMAIN networkQueues :
    /\ Start(networkKey)
    /\ \E i \in TasksOf(network, networkType) :
         tasks[i].st = "queued" /\ tasks'[i].st = "running"

\* C4: whenever a task of a network key is pending and fewer than 3 tasks of
\* that key are running, a task of that key can be started, whatever the
\* tasks of the other keys are doing.
C4_Independent ==
  \A network \in Networks, networkType \in NetworkTypes :
    ( /\ \E i \in TasksOf(network, networkType) : tasks[i].st = "queued"
      /\ Cardinality({i \in TasksOf(network, networkType) :
                        tasks[i].st = "running"}) < DefaultConcurrency )
    => ENABLED StartOf(network, networkType)

\* A key with a pending task and no running one, while another key has all
\* its workers busy.
C4_Witness ==
  \E n1 \in Networks, t1 \in NetworkTypes, n2 \in Networks, t2 \in NetworkTypes :
    /\ <<n1, t1>> # <<n2, t2>>
    /\ \E i \in TasksOf(n1, t1) : tasks[i].st = "queued"
    /\ \A i \in TasksOf(n1, t1) : tasks[i].st # "running"
    /\ Cardinality({i \in TasksOf(n2, t2) : tasks[i].st = "running"})
         = DefaultConcurrency

(***************************************************************************)
(* BOUNDED CACHE (MemoryCache)                                             *)
(*                                                                         *)
(* A string is the sequence of its pieces, ":" and the JSON punctuation    *)
(* always pieces of their own; the empty string is <<>>.  The Map is the   *)
(* sequence of its entries in insertion order.                             *)
(***************************************************************************)
Undefined == "undefined"

\* new MemoryCache(options): options.ttl || 60000, options.maxSize || 1000
MemoryCacheNew(opts) ==
  [ttl     |-> IF opts.ttl # 0 THEN opts.ttl ELSE 60000,
   maxSize |-> IF opts.maxSize # 0 THEN opts.maxSize ELSE 1000]

\* Map.get: the position of the key's entry, 0 when there is none.
IndexOf(c, key) ==
  IF \E i \in DOMAIN c : c[i].key = key
    THEN CHOOSE i \in DOMAIN c : c[i].key = key
    ELSE 0

\* Map.delete
MapDelete(c, key) ==
  LET i == IndexOf(c, key)
  IN  IF i = 0 THEN c ELSE SubSeq(c, 1, i - 1) \o SubSeq(c, i + 1, Len(c))

\* Map.set: an existing key keeps its place, a new one goes last.
MapSet(c, entry) ==
  LET i == IndexOf(c, entry.key)
  IN  IF i = 0 THEN Append(c, entry) ELSE [c EXCEPT ![i] = entry]

\* Mutant: the comparison with the clock is the wrong way round.
ExpiredReversed(item, t) == item.expiry # 0 /\ item.expiry > t

\* item.expiry && item.expiry < now
Expired(item, t) == item.expiry # 0 /\ item.expiry < t

\* Mutant: the get of an expired entry is not counted.
MemoryGetUncounted(c, st, key, t) ==
  LET i == IndexOf(c, key)
  IN  IF i = 0
        THEN [cache |-> c, stats |-> [st EXCEPT !.misses = @ + 1],
              value |-> Undefined, path |-> "absent"]
        ELSE IF Expired(c[i], t)
          THEN [cache |-> MapDelete(c, key), stats |-> st,
                value |-> Undefined, path |-> "expired"]
          ELSE [cache |-> [c EXCEPT ![i].lastAccessed = t],
                stats |-> [st EXCEPT !.hits = @ + 1],
                value |-> c[i].value, path |-> "hit"]

\* MemoryCache.get(key) at time t: the Map, the counters and the value
\* returned.
MemoryGet(c, st, key, t) ==
  LET i == IndexOf(c, key)
  IN  IF i = 0
        THEN [cache |-> c, stats |-> [st EXCEPT !.misses = @ + 1],
              value |-> Undefined, path |-> "absent"]
        ELSE IF Expired(c[i], t)
          THEN [cache |-> MapDelete(c, key),
                stats |-> [st EXCEPT !.misses = @ + 1],
                value |-> Undefined, path |-> "expired"]
          ELSE [cache |-> [c EXCEPT ![i].lastAccessed = t],
                stats |-> [st EXCEPT !.hits = @ + 1],
                value |-> c[i].value, path |-> "hit"]

\* The loop of evictLRU: the first entry, in Map order, whose lastAccessed is
\* below that of every entry before it and not above any later one.
OldestKey(c) ==
  LET i == CHOOSE i \in DOMAIN c :
             /\ \A j \in DOMAIN c : c[i].lastAccessed <= c[j].lastAccessed
             /\ \A j \in 1..(i - 1) : c[j].lastAccessed > c[i].lastAccessed
  IN  c[i].key

\* MemoryCache.evictLRU: oldestKey stays null on an empty Map, and
\* `if (oldestKey)` is false for null and for the empty string.
EvictLRU(c, st) ==
  IF c = <<>> \/ OldestKey(c) = <<>>
    THEN [cache |-> c, stats |-> st]
    ELSE [cache |-> MapDelete(c, OldestKey(c)),
          stats |-> [st EXCEPT !.evictions = @ + 1]]

\* MemoryCache.set(key, value, ttl) at time t; ttl = 0 stands for a ttl that
\* is not given.
MemorySet(c, st, opts, key, value, ttl, t) ==
  LET expiry == IF ttl # 0 THEN t + ttl ELSE t + opts.ttl
      st1    == [st EXCEPT !.sets = @ + 1]
      ev     == IF Len(c) >= opts.maxSize
                  THEN EvictLRU(c, st1)
                  ELSE [cache |-> c, stats |-> st1]
  IN  [cache |-> MapSet(ev.cache,
                        [key |-> key, value |-> value,
                         expiry |-> expiry, lastAccessed |-> t]),
       stats |-> ev.stats]

\* MemoryCache.delete(key)
MemoryDelete(c, key) == MapDelete(c, key)

\* MemoryCache.getStats()
MemoryGetStats ==
  [hits |-> stats.hits, misses |-> stats.misses, sets |-> stats.sets,
   evictions |-> stats.evictions,
   size |-> Len(cache), maxSize |-> options.maxSize,
   hitRate |-> <<stats.hits,
                 IF stats.hits + stats.misses # 0
                   THEN stats.hits + stats.misses ELSE 1>>]

CacheKeys   == {<<>>, <<"a">>, <<"b">>}
CacheValues == {"v"}
CacheTtls   == {0, 1}

CacheOps == stats.hits + stats.misses + stats.sets

Get(key) ==
  /\ CacheOps < MaxCacheOps
  /\ LET r == MemoryGet(cache, stats, key, now)
     IN  /\ cache' = r.cache
         /\ stats' = r.stats
         /\ ret' = [op |-> "get", key |-> key, value |-> r.value,
                    path |-> r.path]
  /\ UNCHANGED <<now, options, queueVars, hubVars>>

Set(key, value, ttl) ==
  /\ CacheOps < MaxCacheOps
  /\ LET r == MemorySet(cache, stats, options, key, value, ttl, now)
     IN  /\ cache' = r.cache
         /\ stats' = r.stats
         /\ ret' = [op |-> "set", key |-> key]
  /\ UNCHANGED <<now, options, queueVars, hubVars>>

Delete(key) ==
  /\ cache' = MemoryDelete(cache, key)
  /\ ret' = [op |-> "delete", key |-> key]
  /\ UNCHANGED <<now, stats, options, queueVars, hubVars>>

\* MemoryCache.clear()
Clear ==
  /\ cache' = <<>>
  /\ stats' = ZeroStats
  /\ ret' = [op |-> "clear"]
  /\ UNCHANGED <<now, options, queueVars, hubVars>>

\* A millisecond passes.
CacheTick ==
  /\ now < StartTime + MaxTicks
  /\ now' = now + 1
  /\ UNCHANGED <<cacheVars, queueVars, hubVars>>

\* A MemoryCache constructed with a ttl and a maxSize of its own.
InitCache ==
  /\ now = StartTime
  /\ networkQueues = <<>>
  /\ tasks = <<>>
  /\ cache = <<>>
  /\ stats = ZeroStats
  /\ options = MemoryCacheNew([ttl |-> CacheTtl, maxSize |-> CacheMaxSize])
  /\ ret = [op |-> "none"]
  /\ activeSubscriptions = HubStart.activeSubscriptions
  /\ clientSubscriptions = <<>>
  /\ requests = <<>>
  /\ connections = <<>>
  /\ sockets = <<>>
  /\ listeners = HubStart.listeners
  /\ emitted = <<>>
  /\ last = [event |-> "none", socket |-> "none", outcome |-> "none"]

NextCache ==
  \/ \E key \in CacheKeys : Get(key)
  \/ \E key \in CacheKeys, value \in CacheValues, ttl \in CacheTtls :
       Set(key, value, ttl)
  \/ \E key \in CacheKeys : Delete(key)
  \/ Clear
  \/ CacheTick

SpecCache == InitCache /\ [][NextCache]_vars

(***************************************************************************)
(* RPC CACHE POLICY (RpcCache)                                             *)
(***************************************************************************)
MaxRpcTicks == 2       \* clock steps in one run of the RPC cache
RpcTickMs   == 5000    \* length of one such clock step, in milliseconds

\* this.ttlConfig of the singleton, constructed without options
TtlConfig ==
  (<<"blockNumber">> :> 3000) @@ (<<"getCode">> :> 3600000) @@
  (<<"getBalance">> :> 10000) @@ (<<"getTransactionCount">> :> 5000) @@
  (<<"getFeeData">> :> 15000) @@ (<<"tokenBalance">> :> 15000) @@
  (<<"getBlock">> :> 3600000) @@ (<<"default">> :> 5000)

\* The MemoryCache the RpcCache constructor creates.
RpcCacheNew(opts) ==
  MemoryCacheNew([ttl |-> TtlConfig[<<"default">>], maxSize |-> opts.maxSize])

Quote(str) == <<"\"">> \o str \o <<"\"">>

RECURSIVE Items(_)
Items(arr) ==
  IF arr = <<>> THEN <<>>
  ELSE IF Len(arr) = 1 THEN Quote(arr[1])
  ELSE Quote(arr[1]) \o <<",">> \o Items(Tail(arr))

\* JSON.stringify of an array of strings
Stringify(params) == <<"[">> \o Items(params) \o <<"]">>

\* `${method}:${JSON.stringify(params)}`
CreateKey(method, params) == method \o <<":">> \o Stringify(params)

\* this.ttlConfig[method] || this.ttlConfig.default
GetTtl(method) ==
  IF method \in DOMAIN TtlConfig THEN TtlConfig[method]
                                 ELSE TtlConfig[<<"default">>]

\* String.startsWith
StartsWith(str, prefix) ==
  /\ Len(str) >= Len(prefix)
  /\ SubSeq(str, 1, Len(prefix)) = prefix

RECURSIVE DeleteAll(_, _)
DeleteAll(c, keys) ==
  IF keys = <<>> THEN c
  ELSE DeleteAll(MapDelete(c, Head(keys)), Tail(keys))

\* RpcCache.invalidate(method): the Map afterwards.
Invalidate(c, method) ==
  LET hit(e) == StartsWith(e.key, method \o <<":">>)
      keysToDelete == [i \in DOMAIN SelectSeq(c, hit) |-> SelectSeq(c, hit)[i].key]
  IN  DeleteAll(c, keysToDelete)

RpcMethods == {<<"getBalance">>, <<"getBalance", ":", "0xA">>, <<"getBlock">>}
RpcParams  == {<<>>, << <<"0xA">> >>}
RpcValues  == {"v"}

\* RpcCache.get(method, params)
RpcGet(method, params) ==
  /\ CacheOps < MaxCacheOps
  /\ LET r == MemoryGet(cache, stats, CreateKey(method, params), now)
     IN  /\ cache' = r.cache
         /\ stats' = r.stats
         /\ ret' = [op |-> "get", key |-> CreateKey(method, params),
                    value |-> r.value, path |-> r.path]
  /\ UNCHANGED <<now, options, queueVars, hubVars>>

\* RpcCache.set(method, params, value)
RpcSet(method, params, value) ==
  /\ CacheOps < MaxCacheOps
  /\ LET r == MemorySet(cache, stats, options, CreateKey(method, params),
                        value, GetTtl(method), now)
     IN  /\ cache' = r.cache
         /\ stats' = r.stats
         /\ ret' = [op |-> "set", key |-> CreateKey(method, params)]
  /\ UNCHANGED <<now, options, queueVars, hubVars>>

RpcInvalidate(method) ==
  /\ cache' = Invalidate(cache, method)
  /\ ret' = [op |-> "invalidate", method |-> method]
  /\ UNCHANGED <<now, stats, options, queueVars, hubVars>>

RpcTick ==
  /\ now < StartTime + MaxRpcTicks * RpcTickMs
  /\ now' = now + RpcTickMs
  /\ UNCHANGED <<cacheVars, queueVars, hubVars>>

\* const rpcCache = new RpcCache()
InitRpc ==
  /\ now = StartTime
  /\ networkQueues = <<>>
  /\ tasks = <<>>
  /\ cache = <<>>
  /\ stats = ZeroStats
  /\ options = RpcCacheNew([maxSize |-> 0])
  /\ ret = [op |-> "none"]
  /\ activeSubscriptions = HubStart.activeSubscriptions
  /\ clientSubscriptions = <<>>
  /\ requests = <<>>
  /\ connections = <<>>
  /\ sockets = <<>>
  /\ listeners = HubStart.listeners
  /\ emitted = <<>>
  /\ last = [event |-> "none", socket |-> "none", outcome |-> "none"]

NextRpc ==
  \/ \E method \in RpcMethods, params \in RpcParams : RpcGet(method, params)
  \/ \E method \in RpcMethods, params \in RpcParams, value \in RpcValues :
       RpcSet(method, params, value)
  \/ \E method \in RpcMethods : RpcInvalidate(method)
  \/ RpcTick

SpecRpc == InitRpc /\ [][NextRpc]_vars

(***************************************************************************)
(* Claims about the caches.                                                *)
(***************************************************************************)
KeysOf(c) == {c[i].key : i \in DOMAIN c}

IsGetStep(key) ==
  /\ ret'.op = "get" /\ ret'.key = key
  /\ stats'.hits + stats'.misses = stats.hits + stats.misses + 1

C5_Step ==
  \A key \in CacheKeys :
    IsGetStep(key) =>
      /\ \A i \in DOMAIN cache :
           (cache[i].key = key /\ now > cache[i].expiry) =>
             /\ ret'.value = Undefined
             /\ cache' = SelectSeq(cache, LAMBDA e : e.key # key)
             /\ stats' = [stats EXCEPT !.misses = @ + 1]
      /\ key \notin KeysOf(cache) =>
           /\ ret'.value = Undefined
           /\ cache' = cache
           /\ stats' = [stats EXCEPT !.misses = @ + 1]

\* C5: a get(key) performed after the expiry time of the key's entry returns
\* undefined and removes that entry and nothing else; a get of a key that has
\* no entry (as after that removal) returns undefined and leaves the Map as
\* it is; either way only the miss counter grows.
C5_ExpiredGetRemoves == [][C5_Step]_vars

\* A get has just found its entry expired and removed it.
C5_Witness ==
  /\ ret.op = "get" /\ ret.path = "expired" /\ ret.value = Undefined
  /\ ret.key \notin KeysOf(cache)
  /\ stats.misses >= 1

IsSetStep(key) ==
  /\ ret'.op = "set" /\ ret'.key = key
  /\ stats'.sets = stats.sets + 1

C6_Step ==
  \A key \in CacheKeys :
    ( /\ IsSetStep(key)
      /\ key \notin KeysOf(cache)
      /\ Len(cache) + 1 > options.maxSize )
    => /\ stats'.evictions = stats.evictions + 1
       /\ \E i \in DOMAIN cache :
            /\ \A j \in DOMAIN cache :
                 cache[i].lastAccessed <= cache[j].lastAccessed
            /\ KeysOf(cache') = (KeysOf(cache) \ {cache[i].key}) \cup {key}

\* C6: every set that would make the number of entries exceed maxSize evicts
\* exactly one entry (evictions + 1), and the evicted entry has the smallest
\* lastAccessed of the entries present.
C6_OneLruEviction == [][C6_Step]_vars

IsInvalidateStep(method) ==
  /\ ret'.op = "invalidate" /\ ret'.method = method
  /\ ret' # ret \/ cache' # cache

ProducedFor(method, key) ==
  \E params \in RpcParams : key = CreateKey(method, params)

C7_Step ==
  \A method \in RpcMethods :
    IsInvalidateStep(method) =>
      cache' = SelectSeq(cache, LAMBDA e : ~ProducedFor(method, e.key))

\* C7: invalidate(m) removes all and only the entries whose key was produced
\* by createKey(m, params); every entry stored under another method name,
\* one that has m followed by ":" as a prefix included, is left untouched.
C7_InvalidateExact == [][C7_Step]_vars

\* ------------------------------------------------------------------------
\* The subscription hub: the socket.io server of initializeWebSocketServer.
\* The .then/.catch continuations of the enqueued requests, the block
\* listener and the gas-price interval never write the registries; they
\* are defined further down, with the specifications that step them.
\* ------------------------------------------------------------------------

Sockets         == {"s1", "s2"}
ClientIPs       == {"10.0.0.1"}
Addresses       == {"0xA"}
TxHashes        == {"0xT"}
HubNetworks     == {"ethereum"}
\* "mumbai" is a type ethereum has no endpoint for.
HubNetworkTypes == {"mainnet", "mumbai"}
Topics          == {"balances", "pendingTxs", "blocks", "gasPrice"}

MaxConnectionsPerIP == 10
TimeWindow          == 60000
MaxRequests         == 60

\* NETWORKS: the network types each network has an RPC endpoint for (the
\* two networks the events here can name).
NETWORKS ==
  [ethereum |-> {"mainnet", "sepolia", "goerli"},
   polygon  |-> {"mainnet", "mumbai"}]

\* getProvider(network, networkType) throws for a network or a type that
\* NETWORKS does not list; TRUE when it returns a provider.
GetProvider(network, networkType) ==
  LET normalizedNetworkType ==
        IF network = "bsc" /\ networkType = "testnet" THEN "testnet"
        ELSE IF network = "polygon" /\ networkType = "testnet" THEN "mumbai"
        ELSE IF networkType = "testnet" THEN "goerli"
        ELSE networkType
  IN  /\ network \in DOMAIN NETWORKS
      /\ normalizedNetworkType \in NETWORKS[network]

\* obj[key] = value on a plain object
Put(obj, key, value) ==
  [k \in DOMAIN obj \cup {key} |-> IF k = key THEN value ELSE obj[k]]

\* The object restricted to some of its keys (delete obj[key] for the others).
Restrict(obj, keys) ==
  IF keys = {} THEN <<>> ELSE [k \in keys |-> obj[k]]

\* Mutant: the limiter never drops the timestamps that left the window.
IsRateLimitedNoPurge(s, eventType) ==
  LET key == <<s, ":", eventType>>
      old == IF key \in DOMAIN requests[s] THEN requests[s][key] ELSE <<>>
      limited == Len(old) >= MaxRequests
  IN  [limited  |-> limited,
       requests |-> Put(requests[s], key,
                        IF limited THEN old ELSE Append(old, now))]

\* Mutant: the limiter lets one request more through.
IsRateLimitedOneOver(s, eventType) ==
  LET key == <<s, ":", eventType>>
      old == IF key \in DOMAIN requests[s] THEN requests[s][key] ELSE <<>>
      InWindow(timestamp) == (now - timestamp) < TimeWindow
      kept == SelectSeq(old, InWindow)
      limited == Len(kept) > MaxRequests
  IN  [limited  |-> limited,
       requests |-> Put(requests[s], key,
                        IF limited THEN kept ELSE Append(kept, now))]

\* isRateLimited(eventType) of the connection of socket s: the answer and
\* requestLimiter.requests afterwards.
IsRateLimited(s, eventType) ==
  LET key == <<s, ":", eventType>>
      old == IF key \in DOMAIN requests[s] THEN requests[s][key] ELSE <<>>
      InWindow(timestamp) == (now - timestamp) < TimeWindow
      kept == SelectSeq(old, InWindow)
      limited == Len(kept) >= MaxRequests
  IN  [limited  |-> limited,
       requests |-> Put(requests[s], key,
                        IF limited THEN kept ELSE Append(kept, now))]

\* socket.emit(event) inside an event handler.  What a socket is sent is an
\* event name and the task whose result the payload carries, 0 when the
\* payload comes from no task.
Emit(s, event) == [emitted EXCEPT ![s] = @ \cup {<<event, 0>>}]

Handled(event, s, outcome) ==
  [event |-> event, socket |-> s, outcome |-> outcome]

\* Mutant: the rejected event is remembered by the limiter all the same.
RateLimitExitCounted(s, event, rl) ==
  /\ requests' = [requests EXCEPT ![s] =
                    Put(rl.requests, <<s, ":", event>>,
                        Append(rl.requests[<<s, ":", event>>], now))]
  /\ emitted' = Emit(s, "error")
  /\ last' = Handled(event, s, "limited")
  /\ UNCHANGED <<now, queueVars, cacheVars, activeSubscriptions,
                 clientSubscriptions, connections, sockets, listeners>>

\* The rate-limited exit every subscribe handler starts with.
RateLimitExit(s, event, rl) ==
  /\ requests' = [requests EXCEPT ![s] = rl.requests]
  /\ emitted' = Emit(s, "error")
  /\ last' = Handled(event, s, "limited")
  /\ UNCHANGED <<now, queueVars, cacheVars, activeSubscriptions,
                 clientSubscriptions, connections, sockets, listeners>>

\* Mutant: a subscribe of a socket that is in the Set takes it out.
AddSubscriberToggle(registry, key, s) ==
  LET set == IF key \in DOMAIN registry THEN registry[key] ELSE {}
  IN  Put(registry, key, IF s \in set THEN set \ {s} ELSE set \cup {s})

\* registry[key].add(socket.id), the Set created when the key has none.
AddSubscriber(registry, key, s) ==
  Put(registry, key,
      (IF key \in DOMAIN registry THEN registry[key] ELSE {}) \cup {s})

\* Mutant: the middleware lets one connection more in.
ConnectOneMore(s, clientIP) ==
  /\ s \notin DOMAIN sockets
  /\ LET count == (IF clientIP \in DOMAIN connections
                     THEN connections[clientIP] ELSE 0) + 1
     IN  /\ connections' = Put(connections, clientIP, count)
         /\ IF count > MaxConnectionsPerIP + 1
              THEN /\ sockets' = Put(sockets, s, [st |-> "refused", ip |-> clientIP])
                   /\ last' = Handled("connect", s, "refused")
                   /\ UNCHANGED <<clientSubscriptions, requests, emitted>>
              ELSE /\ sockets' = Put(sockets, s, [st |-> "open", ip |-> clientIP])
                   /\ clientSubscriptions' =
                        Put(clientSubscriptions, s,
                            [balances |-> {}, pendingTxs |-> {},
                             blocks |-> {}, gasPrice |-> {}])
                   /\ requests' = Put(requests, s, <<>>)
                   /\ emitted' = Put(emitted, s, {})
                   /\ last' = Handled("connect", s, "open")
  /\ UNCHANGED <<now, queueVars, cacheVars, activeSubscriptions, listeners>>

\* io.use middleware, then io.on('connection').
Connect(s, clientIP) ==
  /\ s \notin DOMAIN sockets
  /\ LET count == (IF clientIP \in DOMAIN connections
                     THEN connections[clientIP] ELSE 0) + 1
     IN  /\ connections' = Put(connections, clientIP, count)
         /\ IF count > MaxConnectionsPerIP
              THEN /\ sockets' = Put(sockets, s, [st |-> "refused", ip |-> clientIP])
                   /\ last' = Handled("connect", s, "refused")
                   /\ UNCHANGED <<clientSubscriptions, requests, emitted>>
              ELSE /\ sockets' = Put(sockets, s, [st |-> "open", ip |-> clientIP])
                   /\ clientSubscriptions' =
                        Put(clientSubscriptions, s,
                            [balances |-> {}, pendingTxs |-> {},
                             blocks |-> {}, gasPrice |-> {}])
                   /\ requests' = Put(requests, s, <<>>)
                   /\ emitted' = Put(emitted, s, {})
                   /\ last' = Handled("connect", s, "open")
  /\ UNCHANGED <<now, queueVars, cacheVars, activeSubscriptions, listeners>>

IsOpen(s) == s \in DOMAIN sockets /\ sockets[s].st = "open"

\* socket.on('subscribe:balance')
SubscribeBalance(s, address, network, networkType) ==
  /\ IsOpen(s)
  /\ LET rl == IsRateLimited(s, "subscribe:balance")
     IN  IF rl.limited
           THEN RateLimitExit(s, "subscribe:balance", rl)
           ELSE /\ requests' = [requests EXCEPT ![s] = rl.requests]
                /\ activeSubscriptions' =
                     [activeSubscriptions EXCEPT
                        !.balances = AddSubscriber(@, address, s)]
                /\ clientSubscriptions' =
                     [clientSubscriptions EXCEPT ![s].balances = @ \cup {address}]
                /\ EnqueueNetworkRequest(network, networkType,
                                         [event |-> "balance:update", socket |-> s,
                                          key |-> address])
                /\ last' = Handled("subscribe:balance", s, "accepted")
                /\ UNCHANGED <<now, cacheVars, connections, sockets,
                               listeners, emitted>>

\* socket.on('subscribe:transaction'): the first subscriber of a hash has
\* the transaction looked up through the queue.
SubscribeTransaction(s, txHash, network, networkType) ==
  /\ IsOpen(s)
  /\ LET rl == IsRateLimited(s, "subscribe:transaction")
     IN  IF rl.limited
           THEN RateLimitExit(s, "subscribe:transaction", rl)
           ELSE /\ requests' = [requests EXCEPT ![s] = rl.requests]
                /\ IF txHash \notin DOMAIN activeSubscriptions.pendingTxs
                     THEN EnqueueNetworkRequest(network, networkType,
                            [event |-> "transaction:update", socket |-> s,
                             key |-> txHash])
                     ELSE UNCHANGED queueVars
                /\ activeSubscriptions' =
                     [activeSubscriptions EXCEPT
                        !.pendingTxs = AddSubscriber(@, txHash, s)]
                /\ clientSubscriptions' =
                     [clientSubscriptions EXCEPT ![s].pendingTxs = @ \cup {txHash}]
                /\ last' = Handled("subscribe:transaction", s, "accepted")
                /\ UNCHANGED <<now, cacheVars, connections, sockets,
                               listeners, emitted>>

\* socket.on('subscribe:blocks'): the first subscriber of a network key
\* creates the Set, then the provider and its 'block' listener; when
\* getProvider throws, the catch emits 'error' and the new Set stays behind.
SubscribeBlocks(s, network, networkType) ==
  /\ IsOpen(s)
  /\ LET rl == IsRateLimited(s, "subscribe:blocks")
         networkKey == NetworkKey(network, networkType)
         first == networkKey \notin DOMAIN activeSubscriptions.blocks
     IN  IF rl.limited
           THEN RateLimitExit(s, "subscribe:blocks", rl)
           ELSE /\ requests' = [requests EXCEPT ![s] = rl.requests]
                /\ IF first /\ ~GetProvider(network, networkType)
                     THEN /\ activeSubscriptions' =
                               [activeSubscriptions EXCEPT
                                  !.blocks = Put(@, networkKey, {})]
                          /\ emitted' = Emit(s, "error")
                          /\ last' = Handled("subscribe:blocks", s, "error")
                          /\ UNCHANGED <<clientSubscriptions, listeners>>
                     ELSE /\ activeSubscriptions' =
                               [activeSubscriptions EXCEPT
                                  !.blocks = AddSubscriber(@, networkKey, s)]
                          /\ clientSubscriptions' =
                               [clientSubscriptions EXCEPT
                                  ![s].blocks = @ \cup {networkKey}]
                          /\ listeners' =
                               IF first
                                 THEN [listeners EXCEPT
                                         !.blocks = Put(@, networkKey,
                                           IF networkKey \in DOMAIN @
                                             THEN @[networkKey] + 1 ELSE 1)]
                                 ELSE listeners
                          /\ last' = Handled("subscribe:blocks", s, "accepted")
                          /\ UNCHANGED emitted
                /\ UNCHANGED <<now, queueVars, cacheVars, connections, sockets>>

\* socket.on('subscribe:gasPrice'): the first subscriber of a network key
\* starts the 15 s interval; every subscriber has the fee data fetched once.
SubscribeGasPrice(s, network, networkType) ==
  /\ IsOpen(s)
  /\ LET rl == IsRateLimited(s, "subscribe:gasPrice")
         networkKey == NetworkKey(network, networkType)
         first == networkKey \notin DOMAIN activeSubscriptions.gasPrice
     IN  IF rl.limited
           THEN RateLimitExit(s, "subscribe:gasPrice", rl)
           ELSE /\ requests' = [requests EXCEPT ![s] = rl.requests]
                /\ listeners' =
                     IF first
                       THEN [listeners EXCEPT
                               !.gasPrice = Put(@, networkKey,
                                 IF networkKey \in DOMAIN @
                                   THEN @[networkKey] + 1 ELSE 1)]
                       ELSE listeners
                /\ activeSubscriptions' =
                     [activeSubscriptions EXCEPT
                        !.gasPrice = AddSubscriber(@, networkKey, s)]
                /\ clientSubscriptions' =
                     [clientSubscriptions EXCEPT
                        ![s].gasPrice = @ \cup {networkKey}]
                /\ EnqueueNetworkRequest(network, networkType,
                                         [event |-> "gasPrice:update", socket |-> s,
                                          key |-> networkKey])
                /\ last' = Handled("subscribe:gasPrice", s, "accepted")
                /\ UNCHANGED <<now, cacheVars, connections, sockets, emitted>>

\* Mutant: an unsubscribe leaves the key in the reverse index.
UnsubscribeRegistryOnly(s, topic, key, event) ==
  /\ IsOpen(s)
  /\ IF key \in DOMAIN activeSubscriptions[topic]
       THEN /\ activeSubscriptions' =
                 [activeSubscriptions EXCEPT ![topic][key] = @ \ {s}]
            /\ last' = Handled(event, s, "removed")
       ELSE /\ last' = Handled(event, s, "unknown")
            /\ UNCHANGED activeSubscriptions
  /\ UNCHANGED <<now, queueVars, cacheVars, clientSubscriptions, requests,
                 connections, sockets, listeners, emitted>>

\* The body the four unsubscribe handlers share: when the registry has the
\* key, the socket leaves its Set and the key leaves the reverse index.
Unsubscribe(s, topic, key, event) ==
  /\ IsOpen(s)
  /\ IF key \in DOMAIN activeSubscriptions[topic]
       THEN /\ activeSubscriptions' =
                 [activeSubscriptions EXCEPT ![topic][key] = @ \ {s}]
            /\ clientSubscriptions' =
                 [clientSubscriptions EXCEPT ![s][topic] = @ \ {key}]
            /\ last' = Handled(event, s, "removed")
       ELSE /\ last' = Handled(event, s, "unknown")
            /\ UNCHANGED <<activeSubscriptions, clientSubscriptions>>
  /\ UNCHANGED <<now, queueVars, cacheVars, requests, connections, sockets,
                 listeners, emitted>>

\* socket.on('unsubscribe:balance')
UnsubscribeBalance(s, address) ==
  Unsubscribe(s, "balances", address, "unsubscribe:balance")

\* socket.on('unsubscribe:transaction')
UnsubscribeTransaction(s, txHash) ==
  Unsubscribe(s, "pendingTxs", txHash, "unsubscribe:transaction")

\* socket.on('unsubscribe:blocks')
UnsubscribeBlocks(s, network, networkType) ==
  Unsubscribe(s, "blocks", NetworkKey(network, networkType), "unsubscribe:blocks")

\* socket.on('unsubscribe:gasPrice')
UnsubscribeGasPrice(s, network, networkType) ==
  Unsubscribe(s, "gasPrice", NetworkKey(network, networkType),
              "unsubscribe:gasPrice")

\* Mutant: the clean-up drops every key the client had joined, whoever
\* else is subscribed to it.
CleanTopicDropKey(registry, keys, s) ==
  Restrict(registry, DOMAIN registry \ keys)

\* One clean-up loop of the disconnect handler: for every key of the reverse
\* index the registry still has, the socket leaves the Set, and the key is
\* deleted when the Set is empty afterwards.
CleanTopic(registry, keys, s) ==
  LET left == [k \in DOMAIN registry |->
                 IF k \in keys THEN registry[k] \ {s} ELSE registry[k]]
  IN  Restrict(left, {k \in DOMAIN left : ~(k \in keys /\ left[k] = {})})

\* The 'disconnect' handlers: the one of the middleware gives the
\* connection slot of the IP back, the one of the connection cleans the four
\* registries and the rate limiter.
Disconnect(s) ==
  /\ IsOpen(s)
  /\ LET clientIP == sockets[s].ip
         count == IF clientIP \in DOMAIN connections
                    THEN connections[clientIP] ELSE 0
     IN  connections' =
           IF count = 0 THEN connections
           ELSE IF count - 1 <= 0
             THEN Restrict(connections, DOMAIN connections \ {clientIP})
             ELSE [connections EXCEPT ![clientIP] = count - 1]
  /\ activeSubscriptions' =
       [topic \in Topics |->
          CleanTopic(activeSubscriptions[topic], clientSubscriptions[s][topic], s)]
  /\ requests' =
       [requests EXCEPT ![s] =
          Restrict(@, {key \in DOMAIN @ : ~StartsWith(key, <<s>>)})]
  /\ sockets' = [sockets EXCEPT ![s].st = "closed"]
  /\ last' = Handled("disconnect", s, "closed")
  /\ UNCHANGED <<now, queueVars, cacheVars, clientSubscriptions, listeners,
                 emitted>>

\* ---- The hub under connect, subscribe, unsubscribe and disconnect ----

MaxSubscribes == 3

\* The subscribe events the limiters remember.
Remembered ==
  UNION {UNION {{<<s, key, i>> : i \in DOMAIN requests[s][key]} :
                  key \in DOMAIN requests[s]} : s \in DOMAIN requests}

HubBudget == Cardinality(Remembered) < MaxSubscribes

NextHub ==
  \/ \E s \in Sockets, clientIP \in ClientIPs : Connect(s, clientIP)
  \/ \E s \in Sockets, address \in Addresses :
       HubBudget /\ SubscribeBalance(s, address, "ethereum", "mainnet")
  \/ \E s \in Sockets, txHash \in TxHashes :
       HubBudget /\ SubscribeTransaction(s, txHash, "ethereum", "mainnet")
  \/ \E s \in Sockets, network \in HubNetworks, networkType \in HubNetworkTypes :
       HubBudget /\ SubscribeBlocks(s, network, networkType)
  \/ \E s \in Sockets :
       HubBudget /\ SubscribeGasPrice(s, "ethereum", "mainnet")
  \/ \E s \in Sockets, address \in Addresses : UnsubscribeBalance(s, address)
  \/ \E s \in Sockets, txHash \in TxHashes : UnsubscribeTransaction(s, txHash)
  \/ \E s \in Sockets, network \in HubNetworks, networkType \in HubNetworkTypes :
       UnsubscribeBlocks(s, network, networkType)
  \/ \E s \in Sockets : UnsubscribeGasPrice(s, "ethereum", "mainnet")
  \/ \E s \in Sockets : Disconnect(s)

SpecHub == InitQueue /\ [][NextHub]_vars

\* ---- One client against the rate limiter, with the clock moving ----

MaxHubTicks    == 3
HubTickMs      == 30000
MaxOtherEvents == 2

\* Date.now() moves on between two events.
HubTick ==
  /\ now < StartTime + MaxHubTicks * HubTickMs
  /\ now' = now + HubTickMs
  /\ UNCHANGED <<queueVars, cacheVars, hubVars>>

\* The timestamps the limiter of socket s holds for an event type.
Timestamps(s, eventType) ==
  IF s \in DOMAIN requests /\ <<s, ":", eventType>> \in DOMAIN requests[s]
    THEN requests[s][<<s, ":", eventType>>]
    ELSE <<>>

NextRate ==
  \/ Connect("s1", "10.0.0.1")
  \/ SubscribeBlocks("s1", "ethereum", "mainnet")
  \/ /\ Len(Timestamps("s1", "subscribe:transaction")) < MaxOtherEvents
     /\ SubscribeTransaction("s1", "0xT", "ethereum", "mainnet")
  \/ UnsubscribeBlocks("s1", "ethereum", "mainnet")
  \/ Disconnect("s1")
  \/ HubTick

SpecRate == InitQueue /\ [][NextRate]_vars

\* ---- Claims about the subscription hub ----

\* C8: in every state reached by subscribe, unsubscribe and disconnect
\* events, no topic registry (balances, pendingTxs, blocks, gasPrice) holds a
\* key whose subscriber set is empty.
C8_NoEmptySubscriberSet ==
  \A topic \in Topics :
    \A key \in DOMAIN activeSubscriptions[topic] :
      activeSubscriptions[topic][key] # {}

\* c is subscribed to the topic/key pair in the registries.
Subscribed(registries, c, topic, key) ==
  /\ key \in DOMAIN registries[topic]
  /\ c \in registries[topic][key]

C9_Step ==
  \A s \in Sockets :
    (IsOpen(s) /\ sockets'[s].st = "closed") =>
      /\ \A topic \in Topics :
           \A key \in DOMAIN activeSubscriptions'[topic] :
             s \notin activeSubscriptions'[topic][key]
      /\ \A c \in Sockets \ {s}, topic \in Topics :
           \A key \in DOMAIN activeSubscriptions[topic]
                        \cup DOMAIN activeSubscriptions'[topic] :
             Subscribed(activeSubscriptions', c, topic, key)
               <=> Subscribed(activeSubscriptions, c, topic, key)

\* C9: when a client disconnects, afterwards its id is in no subscriber set
\* of any topic, and every other client is subscribed to a topic/key pair
\* after the disconnect exactly when it was subscribed to it before.
C9_DisconnectFrame == [][C9_Step]_vars

\* The topic/key pairs of the reverse index of socket s.
Joined(s) ==
  {<<topic, key>> \in Topics \X (Addresses \cup TxHashes \cup
        {NetworkKey(n, t) : n \in HubNetworks, t \in HubNetworkTypes}) :
     key \in clientSubscriptions[s][topic]}

\* A client that had joined two pairs has just disconnected, and another
\* client is still subscribed to one of them.
C9_Witness ==
  \E s \in DOMAIN sockets :
    /\ sockets[s].st = "closed"
    /\ last = Handled("disconnect", s, "closed")
    /\ Cardinality(Joined(s)) >= 2
    /\ \E c \in Sockets \ {s}, p \in Joined(s) :
         Subscribed(activeSubscriptions, c, p[1], p[2])

SubscribeEvents ==
  {"subscribe:balance", "subscribe:transaction", "subscribe:blocks",
   "subscribe:gasPrice"}

C10_Step ==
  \A s \in Sockets, e \in SubscribeEvents :
    ( /\ IsOpen(s)
      /\ last'.socket = s /\ last'.event = e
      /\ (last' # last \/ requests' # requests) ) =>
      LET old    == Timestamps(s, e)
          recent == {i \in DOMAIN old : now - old[i] < TimeWindow}
      IN  /\ (last'.outcome = "limited") <=> (Cardinality(recent) >= MaxRequests)
          /\ last'.outcome = "limited" =>
               /\ <<"error", 0>> \in emitted'[s]
               /\ UNCHANGED <<activeSubscriptions, clientSubscriptions>>
          /\ last'.outcome # "limited" =>
               /\ Len(Timestamps(s, e)') = Cardinality(recent) + 1
               /\ Timestamps(s, e)'[Cardinality(recent) + 1] = now

\* C10: a subscribe event of a client is rejected exactly when the client
\* has had 60 events of that type accepted within the last 60 s: the 61st of
\* a window is rejected, and one that arrives when the window of the
\* accepted ones has elapsed is accepted.
C10_RateLimit == [][C10_Step]_vars

\* The client was rejected once, the window has elapsed since, and its
\* next event of the type has been accepted.
C10_Witness ==
  /\ IsOpen("s1")
  /\ <<"error", 0>> \in emitted["s1"]
  /\ now >= StartTime + TimeWindow
  /\ last = Handled("subscribe:blocks", "s1", "accepted")
  /\ Timestamps("s1", "subscribe:blocks") = <<now>>

\* ------------------------------------------------------------------------
\* The work the hub hands to the queue, and what its continuations emit.
\* ------------------------------------------------------------------------

\* io.to(clients): the sockets an emit to the rooms named by clients goes
\* to.  Every connected socket is in the room of its own id; an emit that
\* names no room at all (clients is the empty array) is socket.io's
\* broadcast to every connected socket.
Recipients(clients) ==
  IF clients = {} THEN {c \in DOMAIN sockets : IsOpen(c)}
                  ELSE {c \in clients : IsOpen(c)}

\* Mutant: the broadcast reaches one subscriber only.
EmitTaskToOne(clients, event, i) ==
  LET one == IF clients = {} THEN {} ELSE {CHOOSE c \in clients : TRUE}
  IN  [c \in DOMAIN emitted |->
         IF c \in one /\ IsOpen(c) THEN emitted[c] \cup {<<event, i>>}
                                   ELSE emitted[c]]

\* socket.emit / io.to(clients).emit of the result of task i: a socket that
\* is no longer connected gets nothing.
EmitTask(clients, event, i) ==
  [c \in DOMAIN emitted |->
     IF c \in Recipients(clients) THEN emitted[c] \cup {<<event, i>>}
                                  ELSE emitted[c]]

\* broadcastBalanceUpdate(address, network, networkType): with a subscriber
\* of the address the balance is fetched through the queue; without one the
\* call answers false.
BroadcastBalanceUpdate(address, network, networkType) ==
  IF /\ address \in DOMAIN activeSubscriptions.balances
     /\ Cardinality(activeSubscriptions.balances[address]) > 0
    THEN /\ EnqueueNetworkRequest(network, networkType,
              [event |-> "broadcastBalanceUpdate", socket |-> "room",
               key |-> address])
         /\ last' = Handled("broadcastBalanceUpdate", "room", "queued")
         /\ UNCHANGED <<now, cacheVars, activeSubscriptions,
                        clientSubscriptions, requests, connections, sockets,
                        listeners, emitted>>
    ELSE /\ last' = Handled("broadcastBalanceUpdate", "room", "false")
         /\ UNCHANGED <<now, queueVars, cacheVars, activeSubscriptions,
                        clientSubscriptions, requests, connections, sockets,
                        listeners, emitted>>

\* Array.from(registry[key]) and io.to(clients).emit(event) in a .then: the
\* Array.from throws when the key is gone, and the .catch only logs.
EmitToSubscribers(topic, key, event, i) ==
  IF key \in DOMAIN activeSubscriptions[topic]
    THEN /\ emitted' = EmitTask(activeSubscriptions[topic][key], event, i)
         /\ last' = Handled(event, "room", "delivered")
    ELSE /\ last' = Handled(event, "room", "logged")
         /\ UNCHANGED emitted

\* Mutant: the .then of a fetch emits nothing.
ThenSilent(i) == UNCHANGED <<emitted, listeners, last>>

\* The .then of the promise of task i (the fetch returned something).
Then(i) ==
  LET cb == tasks[i].cb
  IN  CASE cb.event \in {"balance:update", "gasPrice:update"} ->
             /\ emitted' = EmitTask({cb.socket}, cb.event, i)
             /\ last' = Handled(cb.event, cb.socket, "delivered")
             /\ UNCHANGED listeners
        [] cb.event = "transaction:update" ->
             /\ EmitToSubscribers("pendingTxs", cb.key, cb.event, i)
             /\ listeners' =
                  IF cb.key \in DOMAIN activeSubscriptions.pendingTxs
                    THEN [listeners EXCEPT
                            !.pendingTxs = Put(@, cb.key,
                              IF cb.key \in DOMAIN @ THEN @[cb.key] + 1 ELSE 1)]
                    ELSE listeners
        [] cb.event = "broadcastBalanceUpdate" ->
             /\ EmitToSubscribers("balances", cb.key, "balance:update", i)
             /\ UNCHANGED listeners
        [] cb.event = "block:new" ->
             /\ EmitToSubscribers("blocks", cb.key, cb.event, i)
             /\ UNCHANGED listeners
        [] cb.event = "gasPrice:tick" ->
             /\ EmitToSubscribers("gasPrice", cb.key, "gasPrice:update", i)
             /\ UNCHANGED listeners
        [] OTHER -> UNCHANGED <<emitted, listeners, last>>

\* The .catch of the promise of task i.
Catch(i) ==
  LET cb == tasks[i].cb
  IN  /\ IF cb.event \in {"balance:update", "gasPrice:update"}
           THEN /\ emitted' = EmitTask({cb.socket}, "error", i)
                /\ last' = Handled("error", cb.socket, "delivered")
           ELSE IF cb.event = "caller"
             THEN UNCHANGED <<emitted, last>>
             ELSE /\ last' = Handled(cb.event, "room", "logged")
                  /\ UNCHANGED emitted
      /\ UNCHANGED listeners

\* One attempt of a task ends; when that settles the promise, the
\* continuation the caller attached runs.
HubDone(i, ok) ==
  /\ ok \/ FailedAttempts < MaxFailures
  /\ WorkerDone(i, ok)
  /\ IF tasks'[i].promise = "resolved" THEN Then(i)
     ELSE IF tasks'[i].promise = "rejected" THEN Catch(i)
     ELSE UNCHANGED <<emitted, listeners, last>>
  /\ UNCHANGED <<now, cacheVars, activeSubscriptions, clientSubscriptions,
                 requests, connections, sockets>>

\* ---- The hub with the queue workers running and balances broadcast ----

MaxDeliverTasks == 4

DeliverRoom == Len(tasks) < MaxDeliverTasks

DeliverStart ==
  \E networkKey \in DOMAIN networkQueues :
    /\ StartTask(networkKey)
    /\ UNCHANGED <<now, cacheVars, hubVars>>

NextDeliver ==
  \/ \E s \in Sockets, clientIP \in ClientIPs : Connect(s, clientIP)
  \/ \E s \in Sockets, address \in Addresses :
       /\ HubBudget /\ DeliverRoom
       /\ SubscribeBalance(s, address, "ethereum", "mainnet")
  \/ \E s \in Sockets, address \in Addresses : UnsubscribeBalance(s, address)
  \/ \E address \in Addresses :
       /\ DeliverRoom
       /\ BroadcastBalanceUpdate(address, "ethereum", "mainnet")
  \/ DeliverStart
  \/ \E i \in DOMAIN tasks : HubDone(i, TRUE)
  \/ \E s \in Sockets : Disconnect(s)

SpecDeliver == InitQueue /\ [][NextDeliver]_vars

C11_Step ==
  \A i \in DOMAIN tasks :
    ( /\ tasks[i].cb.event = "broadcastBalanceUpdate"
      /\ tasks[i].promise = "pending"
      /\ tasks'[i].promise = "resolved" ) =>
      \A c \in Sockets :
        (IsOpen(c) /\ Subscribed(activeSubscriptions, c, "balances", tasks[i].cb.key))
          => <<"balance:update", i>> \in emitted'[c]

\* C11: when the balance fetch of a broadcastBalanceUpdate(address) call
\* succeeds, every client subscribed to the address is sent balance:update:
\* both of two subscribers, and the remaining one after the other has
\* unsubscribed.
C11_BroadcastReachesAll == [][C11_Step]_vars

\* One broadcast has reached both clients, one of them has unsubscribed, and
\* a further broadcast has reached the other one only.
C11_Witness ==
  \E i \in DOMAIN tasks, j \in DOMAIN tasks :
    /\ i < j
    /\ tasks[i].cb.event = "broadcastBalanceUpdate"
    /\ tasks[j].cb.event = "broadcastBalanceUpdate"
    /\ IsOpen("s1") /\ IsOpen("s2")
    /\ <<"balance:update", i>> \in emitted["s1"] \cap emitted["s2"]
    /\ <<"balance:update", j>> \in emitted["s2"] \ emitted["s1"]
    /\ ~Subscribed(activeSubscriptions, "s1", "balances", tasks[j].cb.key)

\* ------------------------------------------------------------------------
\* The block listeners and the gas-price timers.
\* ------------------------------------------------------------------------

\* The listeners / timers that are active for a network key.
ActiveListeners(topic, networkKey) ==
  IF networkKey \in DOMAIN listeners[topic] THEN listeners[topic][networkKey]
                                            ELSE 0

\* !registry[networkKey] || registry[networkKey].size === 0
NoSubscribers(topic, networkKey) ==
  \/ networkKey \notin DOMAIN activeSubscriptions[topic]
  \/ Cardinality(activeSubscriptions[topic][networkKey]) = 0

\* Mutant: a callback that finds no subscriber returns without cancelling
\* its listener / timer.
InvocationNoCancel(topic, network, networkType, event) ==
  LET networkKey == NetworkKey(network, networkType)
  IN  /\ ActiveListeners(topic, networkKey) > 0
      /\ IF NoSubscribers(topic, networkKey)
           THEN /\ last' = Handled(event, "room", "cancelled")
                /\ UNCHANGED <<queueVars, listeners>>
           ELSE /\ EnqueueNetworkRequest(network, networkType,
                     [event |-> event, socket |-> "room", key |-> networkKey])
                /\ last' = Handled(event, "room", "queued")
                /\ UNCHANGED listeners
      /\ UNCHANGED <<now, cacheVars, activeSubscriptions, clientSubscriptions,
                     requests, connections, sockets, emitted>>

\* One invocation of a listener / timer callback of the key: without a
\* subscriber it cancels itself, with one it has the data fetched through
\* the queue.
Invocation(topic, network, networkType, event) ==
  LET networkKey == NetworkKey(network, networkType)
  IN  /\ ActiveListeners(topic, networkKey) > 0
      /\ IF NoSubscribers(topic, networkKey)
           THEN /\ listeners' = [listeners EXCEPT ![topic][networkKey] = @ - 1]
                /\ last' = Handled(event, "room", "cancelled")
                /\ UNCHANGED queueVars
           ELSE /\ EnqueueNetworkRequest(network, networkType,
                     [event |-> event, socket |-> "room", key |-> networkKey])
                /\ last' = Handled(event, "room", "queued")
                /\ UNCHANGED listeners
      /\ UNCHANGED <<now, cacheVars, activeSubscriptions, clientSubscriptions,
                     requests, connections, sockets, emitted>>

\* provider.on('block', ...): a new block is announced to a listener.
BlockListener(network, networkType) ==
  Invocation("blocks", network, networkType, "block:new")

\* The setInterval callback of a gas-price timer.
GasPriceTimer(network, networkType) ==
  Invocation("gasPrice", network, networkType, "gasPrice:tick")

MaxListenTasks == 3

ListenRoom == Len(tasks) < MaxListenTasks

NextListen ==
  \/ \E s \in Sockets, clientIP \in ClientIPs : Connect(s, clientIP)
  \/ \E s \in Sockets :
       HubBudget /\ SubscribeBlocks(s, "ethereum", "mainnet")
  \/ \E s \in Sockets :
       HubBudget /\ ListenRoom /\ SubscribeGasPrice(s, "ethereum", "mainnet")
  \/ \E s \in Sockets : UnsubscribeBlocks(s, "ethereum", "mainnet")
  \/ \E s \in Sockets : UnsubscribeGasPrice(s, "ethereum", "mainnet")
  \/ ListenRoom /\ BlockListener("ethereum", "mainnet")
  \/ ListenRoom /\ GasPriceTimer("ethereum", "mainnet")
  \/ \E s \in Sockets : Disconnect(s)

SpecListen == InitQueue /\ [][NextListen]_vars

C12_Step ==
  \A topic \in {"blocks", "gasPrice"} :
    \A networkKey \in DOMAIN activeSubscriptions[topic] :
      ( /\ last'.event \in {"unsubscribe:blocks", "unsubscribe:gasPrice"}
        /\ activeSubscriptions[topic][networkKey] # {}
        /\ activeSubscriptions'[topic][networkKey] = {} ) =>
        ActiveListeners(topic, networkKey)' = 0

\* C12: when unsubscribe:blocks or unsubscribe:gasPrice removes the last
\* subscriber of a network key, no block listener or gas-price timer is
\* active for the key once the handler has finished.
C12_TornDownAtUnsubscribe == [][C12_Step]_vars

\* The network keys the listeners and timers of SpecListen belong to.
ListenKeys == {<<"ethereum", "mainnet">>}

C23_Step ==
  \A k \in ListenKeys :
    LET networkKey == NetworkKey(k[1], k[2])
        Checked(topic) ==
          /\ ActiveListeners(topic, networkKey) > 0
          /\ NoSubscribers(topic, networkKey) =>
                /\ tasks' = tasks
                /\ networkQueues' = networkQueues
                /\ emitted' = emitted
                /\ ActiveListeners(topic, networkKey)' =
                     ActiveListeners(topic, networkKey) - 1
                /\ last'.outcome = "cancelled"
          /\ ~NoSubscribers(topic, networkKey) =>
                /\ Len(tasks') = Len(tasks) + 1
                /\ listeners' = listeners
    IN  /\ BlockListener(k[1], k[2]) => Checked("blocks")
        /\ GasPriceTimer(k[1], k[2]) => Checked("gasPrice")

\* C23: every invocation of a block listener and every tick of a gas-price
\* timer is one of an active listener / timer and tests the subscriber Set
\* of its key first; when the Set is missing or empty the invocation
\* enqueues no task, emits nothing and cancels that listener / timer, which
\* is then no longer among the active ones that can be invoked.
C23_SelfCancel == [][C23_Step]_vars

\* A block listener has cancelled itself on a key that disconnect deleted,
\* after a gas-price timer had cancelled itself on a Set that unsubscribe
\* left empty.
C23_Witness ==
  \E k \in ListenKeys :
    LET networkKey == NetworkKey(k[1], k[2])
    IN  /\ last.event = "block:new" /\ last.outcome = "cancelled"
        /\ networkKey \notin DOMAIN activeSubscriptions.blocks
        /\ networkKey \in DOMAIN listeners.blocks
        /\ listeners.blocks[networkKey] = 0
        /\ networkKey \in DOMAIN activeSubscriptions.gasPrice
        /\ activeSubscriptions.gasPrice[networkKey] = {}
        /\ networkKey \in DOMAIN listeners.gasPrice
        /\ listeners.gasPrice[networkKey] = 0

\* C24: the listener / timer of a blocks or gasPrice network key is set up
\* for the first subscriber of the key only, so that under every
\* interleaving of subscribe, unsubscribe, disconnect and listener ticks at
\* most one block listener and at most one gas-price timer is active per
\* network key.
C24_AtMostOneListener ==
  \A topic \in {"blocks", "gasPrice"} :
    \A networkKey \in DOMAIN listeners[topic] :
      listeners[topic][networkKey] <= 1

\* C25: whenever a blocks or gasPrice network key has at least one
\* subscriber, a block listener / gas-price timer is active for the key,
\* also for a client that subscribes after all earlier subscribers of the
\* key have unsubscribed and the old listener / timer has cancelled itself.
C25_SubscribersHaveListener ==
  \A topic \in {"blocks", "gasPrice"} :
    \A networkKey \in DOMAIN activeSubscriptions[topic] :
      activeSubscriptions[topic][networkKey] # {} =>
        ActiveListeners(topic, networkKey) >= 1

\* ------------------------------------------------------------------------
\* Connection admission: many sockets of one IP, a few of another.
\* ------------------------------------------------------------------------

MaxAdmitSockets == 11

\* socket.id of the n-th connection attempt.
AdmitSocketIds ==
  <<"c01", "c02", "c03", "c04", "c05", "c06", "c07", "c08", "c09", "c10",
    "c11", "c12", "c13", "c14">>

AdmitIPs == {"10.0.0.1", "10.0.0.2"}

\* The sockets of an IP in some state of their life.
SocketsOf(clientIP, st) ==
  {s \in DOMAIN sockets : sockets[s].ip = clientIP /\ sockets[s].st = st}

AttemptsOf(clientIP) ==
  {s \in DOMAIN sockets : sockets[s].ip = clientIP}

\* The next connection attempt; it comes from the first IP, or from the
\* other one when that has made none yet.
Attempt(clientIP) ==
  /\ Cardinality(DOMAIN sockets) < MaxAdmitSockets
  /\ Cardinality(DOMAIN sockets) < Len(AdmitSocketIds)
  /\ clientIP = "10.0.0.2" => AttemptsOf(clientIP) = {}
  /\ Connect(AdmitSocketIds[Cardinality(DOMAIN sockets) + 1], clientIP)

NextAdmit ==
  \/ \E clientIP \in AdmitIPs : Attempt(clientIP)
  \/ \E s \in DOMAIN sockets : Disconnect(s)

SpecAdmit == InitQueue /\ [][NextAdmit]_vars

\* C13: for every source IP the number of admitted sockets that are
\* connected at the same time never exceeds maxConnectionsPerIP = 10, and a
\* connection attempt the middleware rejected has no reverse index, no rate
\* limiter and no membership in any registry.
C13_Admission ==
  /\ \A clientIP \in AdmitIPs :
       Cardinality(SocketsOf(clientIP, "open")) <= MaxConnectionsPerIP
  /\ \A s \in DOMAIN sockets :
       sockets[s].st = "refused" =>
         /\ s \notin DOMAIN clientSubscriptions
         /\ s \notin DOMAIN requests
         /\ \A topic \in Topics :
              \A key \in DOMAIN activeSubscriptions[topic] :
                s \notin activeSubscriptions[topic][key]

\* Ten sockets of an IP are connected and a further attempt was rejected.
C13_Witness ==
  \E clientIP \in AdmitIPs :
    /\ Cardinality(SocketsOf(clientIP, "open")) = MaxConnectionsPerIP
    /\ SocketsOf(clientIP, "refused") # {}

\* C14: in every reachable state the connection counter of an IP is not
\* negative and equals the number of admitted connections of the IP that
\* are open.
C14_CounterMatchesOpen ==
  \A clientIP \in AdmitIPs :
    LET count == IF clientIP \in DOMAIN connections
                   THEN connections[clientIP] ELSE 0
    IN  /\ count >= 0
        /\ count = Cardinality(SocketsOf(clientIP, "open"))

\* ---- One client sending subscribe:balance until the limiter refuses ----

MaxLimitTicks == 1
LimitTickMs   == 60000

\* Date.now() a window later.
LimitTick ==
  /\ now < StartTime + MaxLimitTicks * LimitTickMs
  /\ now' = now + LimitTickMs
  /\ UNCHANGED <<queueVars, cacheVars, hubVars>>

NextLimit ==
  \/ Connect("s1", "10.0.0.1")
  \/ SubscribeBalance("s1", "0xA", "ethereum", "mainnet")
  \/ UnsubscribeBalance("s1", "0xA")
  \/ LimitTick
  \/ Disconnect("s1")

SpecLimit == InitQueue /\ [][NextLimit]_vars

C15_Step ==
  \A s \in Sockets, e \in SubscribeEvents :
    ( /\ IsOpen(s)
      /\ last' = Handled(e, s, "limited")
      /\ (last' # last \/ requests' # requests \/ emitted' # emitted) ) =>
      /\ <<"error", 0>> \in emitted'[s]
      /\ Len(Timestamps(s, e)') <= Len(Timestamps(s, e))
      /\ \A i \in DOMAIN Timestamps(s, e)' :
           \E j \in DOMAIN Timestamps(s, e) :
             Timestamps(s, e)[j] = Timestamps(s, e)'[i]
      /\ UNCHANGED <<activeSubscriptions, clientSubscriptions, queueVars>>

\* C15: a subscribe event that exceeds the rate limit has `error` emitted
\* to the requesting client, adds no timestamp to the client's window,
\* leaves the registries and the reverse index as they are and enqueues no
\* task.
C15_RejectedLeavesNoTrace == [][C15_Step]_vars

\* The 61st subscribe:balance of a window was refused: 60 fetches are in
\* the queue, not 61.
C15_Witness ==
  /\ last = Handled("subscribe:balance", "s1", "limited")
  /\ <<"error", 0>> \in emitted["s1"]
  /\ Len(Timestamps("s1", "subscribe:balance")) = MaxRequests
  /\ Len(tasks) = MaxRequests

\* ---- The initial fetch of a subscription, with fair workers ----

MaxFetchTasks == 2

FetchRoom == Len(tasks) < MaxFetchTasks

FetchStart ==
  \E networkKey \in DOMAIN networkQueues :
    /\ StartTask(networkKey)
    /\ UNCHANGED <<now, cacheVars, hubVars>>

\* The work function of a running task returns.
FetchDone == \E i \in DOMAIN tasks : HubDone(i, TRUE)

\* The work function of a running task throws.
FetchFail == \E i \in DOMAIN tasks : HubDone(i, FALSE)

FetchRetry ==
  \E i \in DOMAIN tasks :
    /\ RetryTimer(i)
    /\ UNCHANGED <<now, cacheVars, hubVars>>

NextFetch ==
  \/ \E s \in Sockets, clientIP \in ClientIPs : Connect(s, clientIP)
  \/ \E s \in Sockets, address \in Addresses :
       HubBudget /\ FetchRoom /\ SubscribeBalance(s, address, "ethereum", "mainnet")
  \/ \E s \in Sockets, txHash \in TxHashes :
       HubBudget /\ FetchRoom /\ SubscribeTransaction(s, txHash, "ethereum", "mainnet")
  \/ \E s \in Sockets :
       HubBudget /\ FetchRoom /\ SubscribeGasPrice(s, "ethereum", "mainnet")
  \/ FetchStart
  \/ FetchDone
  \/ FetchFail
  \/ FetchRetry
  \/ \E s \in Sockets : Disconnect(s)

\* A free worker takes a pending task, a work function that does not throw
\* returns, and the retry delay passes.
SpecFetch ==
  /\ InitQueue /\ [][NextFetch]_vars
  /\ WF_vars(FetchStart) /\ WF_vars(FetchDone) /\ WF_vars(FetchRetry)

\* The continuations of the fetches a subscribe handler itself enqueues.
SubscribeFetches == {"balance:update", "transaction:update", "gasPrice:update"}

C16_Step ==
  \A i \in DOMAIN tasks :
    ( /\ tasks[i].cb.event \in SubscribeFetches
      /\ tasks[i].promise = "pending"
      /\ tasks'[i].promise = "rejected"
      /\ IsOpen(tasks[i].cb.socket) ) =>
      /\ <<"error", i>> \in emitted'[tasks[i].cb.socket]
      /\ tasks'[i].value = <<"error", i, MaxRetries>>

\* C16: when the queue task of a client's subscribe request fails for good
\* (its retries are used up), the requesting client is sent an `error`
\* event that carries the error of the last attempt.
C16_FailureReachesClient == [][C16_Step]_vars

\* The initial fetch i of a subscribe:balance / subscribe:gasPrice was
\* enqueued.
Fetching(i) ==
  /\ i \in DOMAIN tasks
  /\ tasks[i].cb.event \in {"balance:update", "gasPrice:update"}

\* The fetch failed for good, the client has gone, or the client was sent
\* the update that carries the result of the fetch.
Fetched(i) ==
  /\ i \in DOMAIN tasks
  /\ \/ tasks[i].promise = "rejected"
     \/ ~IsOpen(tasks[i].cb.socket)
     \/ <<tasks[i].cb.event, i>> \in emitted[tasks[i].cb.socket]

\* C17: after an accepted subscribe:balance (subscribe:gasPrice) whose
\* queued fetch succeeds within its retries, the client is eventually sent
\* balance:update (gasPrice:update), the first subscriber of the key or not.
C17_InitialUpdate ==
  \A i \in 1..(MaxFetchTasks + 1) : Fetching(i) ~> Fetched(i)

\* The second subscriber of an address was sent the balance its own fetch
\* returned, after one failed attempt.
C17_Witness ==
  \E i \in DOMAIN tasks :
    /\ i > 1
    /\ tasks[i].cb.event = "balance:update"
    /\ tasks[1].cb.event = "balance:update"
    /\ tasks[1].cb.key = tasks[i].cb.key
    /\ tasks[1].cb.socket # tasks[i].cb.socket
    /\ tasks[i].retries > 0
    /\ IsOpen(tasks[i].cb.socket)
    /\ <<"balance:update", i>> \in emitted[tasks[i].cb.socket]

\* ------------------------------------------------------------------------
\* Cached reads: CachedProvider._sendRpcRequest and getTokenBalance.
\* ------------------------------------------------------------------------

MaxReadOps   == 4
MaxReadTicks == 3
ReadTickMs   == 5000

\* What the provider / the token contract answers; "throw" is a call that
\* rejects.
LiveResults == {"v1", "v2", "null", "throw"}

ReadMethods == {<<"getBalance">>, <<"getTransaction">>}

\* Mutant: the result of the live call is returned without being cached.
CachedReadNoStore(method, params, result) ==
  LET r == MemoryGet(cache, stats, CreateKey(method, params), now)
  IN  IF r.value # Undefined
        THEN [cache |-> r.cache, stats |-> r.stats, value |-> r.value, live |-> 0]
        ELSE [cache |-> r.cache, stats |-> r.stats, value |-> result, live |-> 1]

\* rpcCache.get(method, params); a value other than undefined is returned,
\* otherwise the live call is made and its result, when it does not throw,
\* goes through rpcCache.set(method, params, result).  live counts the live
\* calls.
CachedRead(method, params, result) ==
  LET r == MemoryGet(cache, stats, CreateKey(method, params), now)
  IN  IF r.value # Undefined
        THEN [cache |-> r.cache, stats |-> r.stats, value |-> r.value, live |-> 0]
        ELSE IF result = "throw"
          THEN [cache |-> r.cache, stats |-> r.stats, value |-> "throw", live |-> 1]
          ELSE LET w == MemorySet(r.cache, r.stats, options,
                                  CreateKey(method, params), result,
                                  GetTtl(method), now)
               IN  [cache |-> w.cache, stats |-> w.stats,
                    value |-> result, live |-> 1]

\* CachedProvider._sendRpcRequest(method, params)
SendRpcRequest(method, params, result) ==
  /\ stats.hits + stats.misses < MaxReadOps
  /\ LET r == CachedRead(method, params, result)
     IN  /\ cache' = r.cache
         /\ stats' = r.stats
         /\ ret' = [op |-> "_sendRpcRequest", method |-> method,
                    key |-> CreateKey(method, params),
                    value |-> r.value, live |-> r.live]
  /\ UNCHANGED <<now, options, queueVars, hubVars>>

\* getTokenBalance(address, tokenAddress, network, networkType)
GetTokenBalance(address, tokenAddress, network, networkType, result) ==
  /\ stats.hits + stats.misses < MaxReadOps
  /\ LET method == <<"tokenBalance">>
         params == <<address, tokenAddress, network, networkType>>
         r == CachedRead(method, params, result)
     IN  /\ cache' = r.cache
         /\ stats' = r.stats
         /\ ret' = [op |-> "getTokenBalance", method |-> method,
                    key |-> CreateKey(method, params),
                    value |-> r.value, live |-> r.live]
  /\ UNCHANGED <<now, options, queueVars, hubVars>>

ReadTick ==
  /\ now < StartTime + MaxReadTicks * ReadTickMs
  /\ now' = now + ReadTickMs
  /\ UNCHANGED <<cacheVars, queueVars, hubVars>>

NextRead ==
  \/ \E method \in ReadMethods, result \in LiveResults :
       SendRpcRequest(method, << <<"0xA">> >>, result)
  \/ \E result \in LiveResults :
       GetTokenBalance(<<"0xA">>, <<"0xTok">>, <<"ethereum">>, <<"mainnet">>,
                       result)
  \/ ReadTick

SpecRead == InitRpc /\ [][NextRead]_vars

\* The entry of a key, when the cache holds one that has not expired.
FreshEntry(key) ==
  {i \in DOMAIN cache : cache[i].key = key /\ cache[i].expiry >= now}

C18_Step ==
  ( /\ stats' # stats
    /\ ret'.op \in {"_sendRpcRequest", "getTokenBalance"} ) =>
    LET key == ret'.key
    IN  /\ FreshEntry(key) # {} =>
             /\ ret'.live = 0
             /\ \A i \in FreshEntry(key) : ret'.value = cache[i].value
        /\ FreshEntry(key) = {} =>
             /\ ret'.live = 1
             /\ ret'.value # "throw" =>
                  \E j \in DOMAIN cache' :
                    /\ cache'[j].key = key
                    /\ cache'[j].value = ret'.value
                    /\ cache'[j].expiry = now + TtlConfig[
                         IF ret'.method \in DOMAIN TtlConfig
                           THEN ret'.method ELSE <<"default">>]

\* C18: a cached read returns the entry of (method, params) without a live
\* call when the cache holds one that has not expired; otherwise it makes
\* the live call once and, when that succeeds, stores the result under
\* (method, params) for the TTL of the method.
C18_CacheBeforeLive == [][C18_Step]_vars

\* A read was answered from the cache with the value an earlier live call
\* had returned, while the provider would have answered something else.
C18_Witness ==
  /\ ret.op = "_sendRpcRequest"
  /\ ret.live = 0
  /\ ret.value = "v1"
  /\ now > StartTime
  /\ stats.hits = 1 /\ stats.sets = 1

\* ------------------------------------------------------------------------
\* POST /clear-cache/:method?
\* ------------------------------------------------------------------------

\* req.params.method when the URL names no method.
NoMethod == <<>>

\* The methods clearCache invalidates when the URL names none.
ClearedMethods ==
  << <<"getBalance">>, <<"tokenBalance">>, <<"getBlock">>, <<"getFeeData">>,
     <<"detectNftStandard">>, <<"getNftOwner">> >>

RECURSIVE InvalidateAll(_, _)
\* methods.forEach(method => invalidateCache(method))
InvalidateAll(c, methods) ==
  IF methods = <<>> THEN c
  ELSE InvalidateAll(Invalidate(c, Head(methods)), Tail(methods))

\* clearCache(req, res, next)
ClearCache(method) ==
  /\ cache' = IF method # NoMethod THEN Invalidate(cache, method)
                                   ELSE InvalidateAll(cache, ClearedMethods)
  /\ ret' = [op |-> "clearCache", method |-> method,
             message |-> IF method # NoMethod
                           THEN method \o <<" cache cleared">>
                           ELSE <<"All cache cleared">>]
  /\ UNCHANGED <<now, stats, options, queueVars, hubVars>>

ClearParams == {NoMethod, <<"getBalance">>, <<"tokenBalance">>}

NextClear ==
  \/ \E method \in ReadMethods, result \in LiveResults :
       SendRpcRequest(method, << <<"0xA">> >>, result)
  \/ \E result \in LiveResults :
       GetTokenBalance(<<"0xA">>, <<"0xTok">>, <<"ethereum">>, <<"mainnet">>,
                       result)
  \/ \E method \in ClearParams : ClearCache(method)

SpecClear == InitRpc /\ [][NextClear]_vars

\* The keys the cached reads produce for a method.
ReadKeys(method) ==
  {CreateKey(method, << <<"0xA">> >>),
   CreateKey(method, << <<"0xA">>, <<"0xTok">>, <<"ethereum">>, <<"mainnet">> >>)}

C19_Step ==
  ( /\ ret'.op = "clearCache"
    /\ ret' # ret \/ cache' # cache ) =>
    IF ret'.method = NoMethod
      THEN /\ ret'.message = <<"All cache cleared">>
           /\ cache' = <<>>
      ELSE cache' = SelectSeq(cache, LAMBDA e : e.key \notin ReadKeys(ret'.method))

\* C19: when POST /clear-cache without a method has answered 'All cache
\* cleared' the RPC cache holds no entry, whatever the methods of the
\* entries; with a method, exactly the entries of that method are removed.
C19_ClearCache == [][C19_Step]_vars

\* ---- The statistics of a MemoryCache ----

C20_Step ==
  LET before == MemoryGetStats
      after  == MemoryGetStats'
  IN  /\ (\E key \in CacheKeys : Get(key)) =>
           /\ after.hits + after.misses = before.hits + before.misses + 1
           /\ after.sets = before.sets
      /\ (\E key \in CacheKeys, value \in CacheValues, ttl \in CacheTtls :
            Set(key, value, ttl)) =>
           /\ after.sets = before.sets + 1
           /\ after.hits = before.hits /\ after.misses = before.misses
      /\ (\E key \in CacheKeys : Delete(key)) =>
           /\ after.hits = before.hits /\ after.misses = before.misses
           /\ after.sets = before.sets
      /\ Clear =>
           /\ cache' = <<>>
           /\ after.hits = 0 /\ after.misses = 0
           /\ after.sets = 0 /\ after.evictions = 0
      /\ after.size = Cardinality(KeysOf(cache'))
      /\ after.hitRate =
           <<after.hits,
             IF after.hits + after.misses > 1 THEN after.hits + after.misses
                                              ELSE 1>>

\* C20: every get adds one to hits + misses, every set adds one to sets,
\* delete leaves the counters alone and clear() empties the map and sets
\* the four counters to 0, so that getStats() reports the numbers of get
\* and set calls since construction or the last clear(), size as the number
\* of stored entries and hitRate = hits / max(1, hits + misses).
C20_Stats == [][C20_Step]_vars

\* Gets that hit, missed and found an expired entry, and sets, have all
\* been counted.
C20_Witness ==
  /\ ret.op = "get" /\ ret.path = "expired"
  /\ stats.hits = 1 /\ stats.misses = 2 /\ stats.sets = 2

(***************************************************************************)
(* The ids of the tasks.                                                   *)
(***************************************************************************)
\* Math.random() * 1000, floored, is one of 0 .. RandomRange - 1.
RandomRange == 1000

\* The draws of Math.floor(Math.random() * 1000) the runs go through: both
\* ends of the range and values in between.
RandomDraws == {0, 1, RandomRange \div 2, RandomRange - 1}

\* `task-${Date.now()}-${Math.floor(Math.random() * 1000)}`: the two numbers
\* are written in decimal with a '-' between them, so the string is the same
\* for two tasks exactly when both numbers are.
TaskId(time, random) == <<"task", time, random>>

\* The object enqueueNetworkRequest pushes, with its id.
TaskWithId(network, networkType, cb, random) ==
  QueueTask(network, networkType, cb) @@ [id |-> TaskId(now, random)]

\* A service or controller call that goes through the queue; random is what
\* Math.random() yields for it.
IdRequest(network, networkType, random) ==
  /\ Len(tasks) < MaxIdTasks
  /\ Push(network, networkType, TaskWithId(network, networkType, Caller, random))
  /\ UNCHANGED <<now, cacheVars, hubVars>>

\* A millisecond passes.
IdTick ==
  /\ now < StartTime + MaxIdTicks
  /\ now' = now + 1
  /\ UNCHANGED <<queueVars, cacheVars, hubVars>>

NextIds ==
  \/ \E network \in Networks, networkType \in NetworkTypes,
         random \in RandomDraws : IdRequest(network, networkType, random)
  \/ IdTick
  \/ FlowStart
  \/ FlowDone

SpecIds == InitQueue /\ [][NextIds]_vars

\* C21: any two tasks submitted through enqueueNetworkRequest have
\* different ids, also when both are enqueued within the same millisecond
\* on the same network key.
C21_DistinctIds ==
  \A i, j \in DOMAIN tasks : i # j => tasks[i].id # tasks[j].id

(***************************************************************************)
(* GAS PRICE PREDICTION                                                    *)
(***************************************************************************)
\* A field of the fee data the node gave no value for (null or undefined).
Null == -1

\* The values a field of provider.getFeeData() takes: a BigInt or null.
FeeValues == {Null} \cup (0 .. MaxFee)

FeeDatas ==
  [lastBaseFeePerGas : FeeValues, gasPrice : FeeValues,
   maxFeePerGas : FeeValues, maxPriorityFeePerGas : FeeValues]

\* What `if (x)`, `x || y` and `x ? a : b` take for true: neither null nor 0n.
Truthy(x) == x # Null /\ x # 0

\* x || y
OrElse(x, y) == IF Truthy(x) THEN x ELSE y

\* The BigInt operators throw a TypeError when an operand is null.
Throws(operands) == Null \in operands

Failed == [threw |-> TRUE]

\* predictGasPrice once getFeeData has answered.  The BigInt division
\* truncates; toString() writes the number in decimal, which the model
\* keeps as the number.
PredictGasPrice(feeData) ==
  LET baseFee == OrElse(feeData.lastBaseFeePerGas, feeData.gasPrice)
  IN  IF Truthy(feeData.maxFeePerGas)
        THEN IF Throws({baseFee, feeData.maxPriorityFeePerGas})
               THEN Failed
               ELSE [threw    |-> FALSE,
                     slow     |-> [maxFeePerGas |-> (baseFee * 120) \div 100,
                                   maxPriorityFeePerGas |->
                                     feeData.maxPriorityFeePerGas \div 2],
                     standard |-> [maxFeePerGas |-> (baseFee * 150) \div 100,
                                   maxPriorityFeePerGas |->
                                     feeData.maxPriorityFeePerGas],
                     fast     |-> [maxFeePerGas |-> (baseFee * 200) \div 100,
                                   maxPriorityFeePerGas |->
                                     feeData.maxPriorityFeePerGas * 2],
                     baseFee  |-> baseFee,
                     eip1559Supported |-> TRUE]
        ELSE IF Throws({feeData.gasPrice})
               THEN Failed
               ELSE [threw    |-> FALSE,
                     slow     |-> [gasPrice |-> (feeData.gasPrice * 80) \div 100],
                     standard |-> [gasPrice |-> feeData.gasPrice],
                     fast     |-> [gasPrice |-> (feeData.gasPrice * 120) \div 100],
                     eip1559Supported |-> FALSE]

\* A call of predictGasPrice: getFeeData answers feeData, or fails.
Predict(feeData, fetched) ==
  /\ ret' = [op |-> "predictGasPrice", fetched |-> fetched, feeData |-> feeData,
             result |-> IF fetched THEN PredictGasPrice(feeData) ELSE Failed]
  /\ UNCHANGED <<now, cache, stats, options, queueVars, hubVars>>

NextGas == \E feeData \in FeeDatas, fetched \in BOOLEAN : Predict(feeData, fetched)

SpecGas == InitQueue /\ [][NextGas]_vars

\* Fee data of an EIP-1559 network: a base fee and the two fee caps.
Eip1559(feeData) ==
  /\ feeData.lastBaseFeePerGas # Null
  /\ feeData.maxFeePerGas # Null
  /\ feeData.maxPriorityFeePerGas # Null

\* Fee data of a legacy network: a gas price and no fee caps.
Legacy(feeData) ==
  /\ feeData.gasPrice # Null
  /\ feeData.maxFeePerGas = Null
  /\ feeData.maxPriorityFeePerGas = Null

\* C22: for EIP-1559 fee data with base fee b and priority fee p,
\* predictGasPrice returns maxFeePerGas floor(b*120/100), floor(b*150/100),
\* floor(b*200/100) and maxPriorityFeePerGas floor(p/2), p, 2p for slow,
\* standard, fast; for legacy fee data with gas price g it returns
\* floor(g*80/100), g, floor(g*120/100); every fee field is non-decreasing
\* from slow to standard to fast.
C22_Tiers ==
  (ret.op = "predictGasPrice" /\ ret.fetched) =>
    LET feeData == ret.feeData
        b == feeData.lastBaseFeePerGas
        p == feeData.maxPriorityFeePerGas
        g == feeData.gasPrice
        r == ret.result
    IN  /\ Eip1559(feeData) =>
              /\ ~r.threw
              /\ r.slow.maxFeePerGas = (b * 120) \div 100
              /\ r.standard.maxFeePerGas = (b * 150) \div 100
              /\ r.fast.maxFeePerGas = (b * 200) \div 100
              /\ r.slow.maxPriorityFeePerGas = p \div 2
              /\ r.standard.maxPriorityFeePerGas = p
              /\ r.fast.maxPriorityFeePerGas = 2 * p
              /\ r.slow.maxFeePerGas <= r.standard.maxFeePerGas
              /\ r.standard.maxFeePerGas <= r.fast.maxFeePerGas
              /\ r.slow.maxPriorityFeePerGas <= r.standard.maxPriorityFeePerGas
              /\ r.standard.maxPriorityFeePerGas <= r.fast.maxPriorityFeePerGas
        /\ Legacy(feeData) =>
              /\ ~r.threw
              /\ r.slow.gasPrice = (g * 80) \div 100
              /\ r.standard.gasPrice = g
              /\ r.fast.gasPrice = (g * 120) \div 100
              /\ r.slow.gasPrice <= r.standard.gasPrice
              /\ r.standard.gasPrice <= r.fast.gasPrice

(***************************************************************************)
(* TRANSACTION SUBSCRIPTIONS: the look-up and the completion listener      *)
(***************************************************************************)
\* The transaction:update a completion listener emits (status success or
\* failed), as opposed to the initial one (status pending or confirmed).
ReceiptUpdate == <<"transaction:update(receipt)", 0>>

\* The look-up of task i resolves with null: the node does not know the
\* transaction yet.  `if (tx)` skips the emit and the provider.once.
TxUnknown(i) ==
  /\ i \in DOMAIN tasks
  /\ tasks[i].cb.event = "transaction:update"
  /\ WorkerDone(i, TRUE)
  /\ last' = Handled("transaction:update", "room", "unknown")
  /\ UNCHANGED <<now, cacheVars, activeSubscriptions, clientSubscriptions,
                 requests, connections, sockets, listeners, emitted>>

\* The completion listeners of a hash that have fired: listeners of a hash
\* are counted from the first provider.once on, so a count of 0 is one
\* that fired.
Fired(txHash) ==
  txHash \in DOMAIN listeners.pendingTxs /\ listeners.pendingTxs[txHash] = 0

\* The receipt of the transaction is there: every provider.once(txHash)
\* listener that is armed fires, once, and emits to
\* Array.from(activeSubscriptions.pendingTxs[txHash] || []).
Mined(txHash) ==
  LET armed   == ActiveListeners("pendingTxs", txHash)
      clients == IF txHash \in DOMAIN activeSubscriptions.pendingTxs
                   THEN activeSubscriptions.pendingTxs[txHash] ELSE {}
  IN  /\ ~Fired(txHash)
      /\ IF armed > 0
           THEN /\ emitted' =
                     [c \in DOMAIN emitted |->
                        IF c \in Recipients(clients)
                          THEN emitted[c] \cup {ReceiptUpdate} ELSE emitted[c]]
                /\ listeners' = [listeners EXCEPT !.pendingTxs[txHash] = 0]
                /\ last' = Handled("mined", "room", "delivered")
           ELSE /\ last' = Handled("mined", "room", "unheard")
                /\ UNCHANGED <<emitted, listeners>>
      /\ UNCHANGED <<now, queueVars, cacheVars, activeSubscriptions,
                     clientSubscriptions, requests, connections, sockets>>

TxRoom == Len(tasks) < MaxTxTasks

NextTx ==
  \/ \E s \in Sockets, clientIP \in ClientIPs : Connect(s, clientIP)
  \/ \E s \in Sockets, txHash \in TxHashes :
       HubBudget /\ TxRoom /\ SubscribeTransaction(s, txHash, "ethereum", "mainnet")
  \/ \E s \in Sockets, txHash \in TxHashes : UnsubscribeTransaction(s, txHash)
  \/ FetchStart
  \/ FetchDone
  \/ \E i \in DOMAIN tasks : TxUnknown(i)
  \/ FetchFail
  \/ FetchRetry
  \/ \E txHash \in TxHashes : Mined(txHash)
  \/ \E s \in Sockets : Disconnect(s)

SpecTx == InitQueue /\ [][NextTx]_vars

\* The look-ups of the hash that have not settled yet.
LookingUp(txHash) ==
  {i \in DOMAIN tasks :
     tasks[i].cb.key = txHash /\ tasks[i].promise = "pending"}

C26_Step ==
  \A txHash \in TxHashes :
    ( /\ Mined(txHash)
      /\ txHash \in DOMAIN activeSubscriptions.pendingTxs
      /\ activeSubscriptions.pendingTxs[txHash] # {}
      /\ LookingUp(txHash) = {} ) =>
      /\ ActiveListeners("pendingTxs", txHash) >= 1
      /\ \A c \in activeSubscriptions.pendingTxs[txHash] :
           IsOpen(c) => ReceiptUpdate \in emitted'[c]

\* C26: when a transaction is mined whose hash has at least one subscriber,
\* a one-shot completion listener has been armed for the hash and every
\* client subscribed at that time is sent a transaction:update with status
\* success or failed, whether the initial getTransaction look-up returned
\* the transaction, returned nothing or failed, and also for clients that
\* subscribed after the first one.
C26_MinedReachesSubscribers == [][C26_Step]_vars

(***************************************************************************)
(* More claims about the MemoryCache.                                      *)
(***************************************************************************)
C27_Step ==
  \A key \in CacheKeys :
    ( /\ \E value \in CacheValues, ttl \in CacheTtls : Set(key, value, ttl)
      /\ key \in KeysOf(cache) ) =>
      /\ stats'.evictions = stats.evictions
      /\ Len(cache') = Len(cache)
      /\ \A i \in DOMAIN cache : cache[i].key # key => cache'[i] = cache[i]

\* C27: set evicts an entry only when storing the key would make the
\* number of entries exceed maxSize: a set that overwrites a key already
\* present, in a full cache too, evicts nothing, leaves the eviction counter
\* as it is and leaves every other entry in place.
C27_OverwriteEvictsNothing == [][C27_Step]_vars

\* C28: after any sequence of set, get, delete and clear with arbitrary
\* string keys, the empty string included, the number of entries of a
\* MemoryCache never exceeds maxSize.
C28_SizeBound == Len(cache) <= options.maxSize

(***************************************************************************)
(* Subscribing again.                                                      *)
(***************************************************************************)
\* The four subscribe events of a client, each for one key.
SubscribeAgainst(s, topic) ==
  CASE topic = "balances"   -> SubscribeBalance(s, "0xA", "ethereum", "mainnet")
    [] topic = "pendingTxs" -> SubscribeTransaction(s, "0xT", "ethereum", "mainnet")
    [] topic = "blocks"     -> SubscribeBlocks(s, "ethereum", "mainnet")
    [] topic = "gasPrice"   -> SubscribeGasPrice(s, "ethereum", "mainnet")

\* The key SubscribeAgainst subscribes to.
KeyOf(topic) ==
  CASE topic = "balances"   -> "0xA"
    [] topic = "pendingTxs" -> "0xT"
    [] OTHER                -> NetworkKey("ethereum", "mainnet")

NextAgain ==
  \/ \E s \in Sockets, clientIP \in ClientIPs : Connect(s, clientIP)
  \/ \E s \in Sockets, topic \in Topics : HubBudget /\ SubscribeAgainst(s, topic)
  \/ \E s \in Sockets : UnsubscribeBalance(s, "0xA")
  \/ \E s \in Sockets : UnsubscribeBlocks(s, "ethereum", "mainnet")
  \/ \E s \in Sockets : Disconnect(s)

SpecAgain == InitQueue /\ [][NextAgain]_vars

C29_Step ==
  \A s \in Sockets, topic \in Topics :
    ( /\ SubscribeAgainst(s, topic)
      /\ Subscribed(activeSubscriptions, s, topic, KeyOf(topic))
      /\ KeyOf(topic) \in clientSubscriptions[s][topic] ) =>
      /\ activeSubscriptions' = activeSubscriptions
      /\ clientSubscriptions' = clientSubscriptions
      /\ listeners' = listeners
      /\ topic \in {"pendingTxs", "blocks"} => tasks' = tasks

\* C29: when a client that is already subscribed to a topic and key sends
\* the same subscribe event again, the topic registry and the client's
\* reverse index are the same as before and no further listener or timer is
\* created; for a transaction hash no further look-up, which is what arms
\* the completion listener, is enqueued.
C29_SubscribeIdempotent == [][C29_Step]_vars

\* s1 has subscribed to the balance of an address twice, with s2 subscribed
\* to it as well.
C29_Witness ==
  /\ last = Handled("subscribe:balance", "s1", "accepted")
  /\ Len(Timestamps("s1", "subscribe:balance")) = 2
  /\ activeSubscriptions.balances["0xA"] = {"s1", "s2"}

(***************************************************************************)
(* Who a broadcast reaches.                                                *)
(***************************************************************************)
\* The registry a continuation that emits to a subscriber list reads, and
\* the event it emits.
BroadcastOf(cb) ==
  CASE cb.event = "broadcastBalanceUpdate" ->
         [topic |-> "balances", event |-> "balance:update"]
    [] cb.event = "transaction:update" ->
         [topic |-> "pendingTxs", event |-> "transaction:update"]
    [] cb.event = "block:new" ->
         [topic |-> "blocks", event |-> "block:new"]
    [] cb.event = "gasPrice:tick" ->
         [topic |-> "gasPrice", event |-> "gasPrice:update"]
    [] OTHER -> [topic |-> "none", event |-> "none"]

C30_Step ==
  \A i \in DOMAIN tasks :
    LET b == BroadcastOf(tasks[i].cb)
    IN  ( /\ b.topic # "none"
          /\ tasks[i].promise = "pending"
          /\ tasks'[i].promise # "pending" ) =>
          /\ \A c \in DOMAIN emitted :
               <<b.event, i>> \in emitted'[c] =>
                 Subscribed(activeSubscriptions, c, b.topic, tasks[i].cb.key)
          /\ last'.outcome \in {"delivered", "logged"}

\* C30: an event broadcast to the subscriber list of a topic and key is
\* delivered only to clients that are subscribed to the key when it is
\* delivered; when every subscriber has unsubscribed or disconnected between
\* the request of the broadcast and the end of its queued fetch, no client
\* receives the event, and the broadcast ends with its error, if any,
\* handled.
C30_OnlySubscribers == [][C30_Step]_vars

(***************************************************************************)
(* Admission over a long history of one IP.                                *)
(***************************************************************************)
\* socket.id of the n-th connection attempt.
RecoverSocketIds ==
  <<"r01", "r02", "r03", "r04", "r05", "r06", "r07", "r08", "r09",
    "r10", "r11", "r12", "r13", "r14", "r15", "r16", "r17", "r18",
    "r19", "r20", "r21", "r22", "r23", "r24">>

\* The next connection attempt of the IP.
RecoverAttempt(clientIP) ==
  /\ Cardinality(DOMAIN sockets) < MaxRecoverSockets
  /\ Cardinality(DOMAIN sockets) < Len(RecoverSocketIds)
  /\ Connect(RecoverSocketIds[Cardinality(DOMAIN sockets) + 1], clientIP)

\* The position of a socket id in the order of the attempts.
AttemptNo(s) == CHOOSE n \in DOMAIN RecoverSocketIds : RecoverSocketIds[n] = s

\* A connected socket of the IP disconnects.  The middleware only counts,
\* so the sockets of one IP are alike to it: they leave oldest first.
RecoverDisconnect(clientIP) ==
  \E s \in SocketsOf(clientIP, "open") :
    /\ \A o \in SocketsOf(clientIP, "open") : AttemptNo(s) <= AttemptNo(o)
    /\ Disconnect(s)

NextRecover ==
  \/ RecoverAttempt("10.0.0.1")
  \/ RecoverDisconnect("10.0.0.1")

SpecRecover == InitQueue /\ [][NextRecover]_vars

C31_Step ==
  \A clientIP \in AdmitIPs, s \in DOMAIN sockets' \ DOMAIN sockets :
    ( /\ sockets'[s].ip = clientIP
      /\ SocketsOf(clientIP, "open") = {} ) =>
      sockets'[s].st = "open"

\* C31: admission recovers: for every source IP and every history of
\* admitted and rejected connection attempts, once all admitted connections
\* of the IP have disconnected the next connection attempt of the IP is
\* admitted.
C31_AdmissionRecovers == [][C31_Step]_vars

(***************************************************************************)
(* More claims about the registries and the rate limiter.                  *)
(***************************************************************************)
\* The keys the events of the runs can name, whatever the topic.
HubKeys ==
  Addresses \cup TxHashes \cup
  {NetworkKey(network, networkType) :
     network \in HubNetworks, networkType \in HubNetworkTypes}

\* C32: in every reachable state and for every connected client c, topic t
\* and key k, k is in the reverse index clientSubscriptions[t] of c if and
\* only if the id of c is in the subscriber set activeSubscriptions[t][k].
C32_IndexMatchesRegistry ==
  \A c \in Sockets, topic \in Topics, key \in HubKeys :
    IsOpen(c) =>
      ( key \in clientSubscriptions[c][topic]
          <=> Subscribed(activeSubscriptions, c, topic, key) )

\* s2 has left a key that s1 is still subscribed to.
C32_Witness ==
  /\ IsOpen("s1") /\ IsOpen("s2")
  /\ last = Handled("unsubscribe:balance", "s2", "removed")
  /\ activeSubscriptions.balances["0xA"] = {"s1"}
  /\ "0xA" \in clientSubscriptions["s1"].balances
  /\ "0xA" \notin clientSubscriptions["s2"].balances
\* How often a timestamp is in a list.
Count(list, timestamp) ==
  Len(SelectSeq(list, LAMBDA x : x = timestamp))

C33_Step ==
  \A s \in Sockets, e \in SubscribeEvents :
    LET old == Timestamps(s, e)
        new == Timestamps(s, e)'
    IN  /\ ( /\ IsOpen(s)
             /\ last'.socket = s /\ last'.event = e
             /\ (last' # last \/ requests' # requests) ) =>
             /\ Len(new) <= MaxRequests
             /\ \A i \in DOMAIN new : now - new[i] < TimeWindow
        /\ ( /\ new # old
             /\ \E timestamp \in {old[i] : i \in DOMAIN old} :
                  Count(new, timestamp) < Count(old, timestamp) ) =>
             \/ last'.socket = s /\ last'.event = e
             \/ IsOpen(s) /\ sockets'[s].st = "closed"

\* C33: after every rate-limit check of a client and event type, the
\* timestamp list of the pair holds only timestamps younger than the 60 s
\* window and at most maxRequests = 60 of them; timestamps are removed only
\* by a check of the same pair or by the disconnect of the client, never in
\* between.
C33_WindowPurgedLazily == [][C33_Step]_vars

\* A check has dropped the timestamps of the start of the run and kept the
\* younger ones, and the list is full again.
C33_Witness ==
  /\ IsOpen("s1")
  /\ now = StartTime + 2 * HubTickMs
  /\ last = Handled("subscribe:blocks", "s1", "accepted")
  /\ Len(Timestamps("s1", "subscribe:blocks")) = MaxRequests
  /\ Head(Timestamps("s1", "subscribe:blocks")) = StartTime + HubTickMs

(***************************************************************************)
(* The order in which a queue starts its tasks.                            *)
(***************************************************************************)
\* The keys the callers of SpecQueue can name.
QueueKeys ==
  {NetworkKey(network, networkType) :
     network \in Networks, networkType \in NetworkTypes}

\* The queue of SpecQueue with workers that take a pending task when one
\* of them is free.
SpecOrder ==
  /\ InitQueue /\ [][NextQueue]_vars
  /\ \A networkKey \in QueueKeys : WF_vars(Start(networkKey))

\* Task i has been pushed and no worker has taken it yet.
NeverStarted(i) == tasks[i].st = "queued" /\ tasks[i].retries = 0

C34_Step ==
  \A j \in DOMAIN tasks :
    ( /\ NeverStarted(j)
      /\ tasks'[j].st = "running" ) =>
      \A i \in 1..(j - 1) :
        tasks[i].key = tasks[j].key => ~NeverStarted(i)

\* A worker is free for the task at the head of the pending list of its key.
Startable(i) ==
  /\ i \in DOMAIN tasks
  /\ tasks[i].st = "queued"
  /\ networkQueues[tasks[i].key].pending # <<>>
  /\ Head(networkQueues[tasks[i].key].pending) = i
  /\ Cardinality(RunningOf(tasks[i].key)) <
       networkQueues[tasks[i].key].opts.concurrent

\* C34: within the queue of one network key tasks are started in the order
\* they were enqueued: a task that has never failed is not started before a
\* task of the key that was enqueued earlier and has not been started yet;
\* and whenever the pending list is not empty and fewer tasks than the
\* concurrency limit are running, a pending task is started.
C34_FifoStart ==
  /\ [][C34_Step]_vars
  /\ \A i \in 1..MaxTasks :
       Startable(i) ~> (i \in DOMAIN tasks /\ tasks[i].st # "queued")

\* A task that never failed runs while a task of the key that was enqueued
\* before it, and has failed once, waits for its next attempt behind it.
C34_Witness ==
  \E i \in DOMAIN tasks, j \in DOMAIN tasks :
    /\ i < j /\ tasks[i].key = tasks[j].key
    /\ tasks[j].st = "running" /\ tasks[j].retries = 0
    /\ tasks[i].st = "queued" /\ tasks[i].retries >= 1

(***************************************************************************)
(* WALLET SERVICE: the operations that go through the queue                *)
(***************************************************************************)
WalletOps ==
  {"getWalletSummary", "getTokenBalance", "sendTransaction",
   "sendTokenTransaction", "sendErc1155Transaction", "sendNftTransaction"}

\* The async work function an operation builds; as a string it is its
\* source text.
Work(op) == "async () => { /* " \o op \o " */ }"

IsFunction(x) == \E op \in WalletOps : x = Work(op)

\* The arguments, in order, an operation calls enqueueNetworkRequest with:
\* getWalletSummary, getTokenBalance and sendTransaction pass (network,
\* networkType, work), the other three pass (work, network, networkType).
CallArgs(op, network, networkType) ==
  IF op \in {"getWalletSummary", "getTokenBalance", "sendTransaction"}
    THEN <<network, networkType, Work(op)>>
    ELSE <<Work(op), network, networkType>>

\* An operation of the wallet service is called for a network: it returns
\* the promise of enqueueNetworkRequest(args[1], args[2], args[3]).
WalletCall(op, network, networkType) ==
  LET args == CallArgs(op, network, networkType)
  IN  /\ Len(tasks) < MaxWalletTasks
      /\ Push(args[1], args[2],
              QueueTask(args[1], args[2], Caller) @@
                [fn  |-> args[3],
                 req |-> [op |-> op, network |-> network,
                          networkType |-> networkType]])
      /\ UNCHANGED <<now, cacheVars, hubVars>>

WalletStart == \E networkKey \in DOMAIN networkQueues : Start(networkKey)

\* The process function runs `await task.fn()`: that throws a TypeError
\* when task.fn is no function, and else ends as the work does.
WalletDone(i, ok) ==
  /\ i \in DOMAIN tasks
  /\ Done(i, ok /\ IsFunction(tasks[i].fn))

WalletRetry == \E i \in DOMAIN tasks : Retry(i)

NextWallet ==
  \/ \E op \in WalletOps, network \in Networks, networkType \in NetworkTypes :
       WalletCall(op, network, networkType)
  \/ WalletStart
  \/ \E i \in DOMAIN tasks, ok \in BOOLEAN : WalletDone(i, ok)
  \/ WalletRetry

SpecWallet == InitQueue /\ [][NextWallet]_vars

\* C35: every wallet-service operation that goes through the queue
\* (getWalletSummary, getTokenBalance, sendTransaction, sendTokenTransaction,
\* sendErc1155Transaction, sendNftTransaction) submits its work to the queue
\* whose key is `network:networkType` of the request, and the queue worker
\* executes the work function of the operation, so that the operation
\* resolves with the result of the work when the work succeeds.
C35_WorkOnRequestedQueue ==
  \A i \in DOMAIN tasks :
    /\ tasks[i].key = NetworkKey(tasks[i].req.network, tasks[i].req.networkType)
    /\ tasks[i].fn = Work(tasks[i].req.op)
    /\ tasks[i].st = "finished" =>
         tasks[i].promise = "resolved" /\ tasks[i].value = <<"result", i>>

(***************************************************************************)
(* sendTransaction: the work function and the retries of the queue         *)
(***************************************************************************)
\* The attempt of the work function a task is in (or will be in next).
AttemptOf(i) == tasks[i].retries + 1

\* sendTransaction(encryptedPrivateKey, to, amount, options, network,
\* networkType): the work function is put on the queue of the network.
\* calls records the attempts whose `await wallet.sendTransaction(tx)` has
\* handed the signed transaction to the node.
SendTransaction(network, networkType) ==
  /\ Len(tasks) < MaxSendTasks
  /\ Push(network, networkType,
          QueueTask(network, networkType, Caller) @@ [calls |-> {}])
  /\ UNCHANGED <<now, cacheVars, hubVars>>

SendStart == \E networkKey \in DOMAIN networkQueues : Start(networkKey)

\* The running work function has built tx and reaches
\* `await wallet.sendTransaction(tx)`: the transaction is signed and sent.
WalletSendTransaction(i) ==
  /\ i \in DOMAIN tasks
  /\ tasks[i].st = "running"
  /\ AttemptOf(i) \notin tasks[i].calls
  /\ tasks' = [tasks EXCEPT ![i].calls = @ \cup {AttemptOf(i)}]
  /\ UNCHANGED <<networkQueues, now, cacheVars, hubVars>>

\* The attempt ends.  It returns the transaction information only after
\* wallet.sendTransaction has answered; it throws ("Transaction could not be
\* sent: ...") when a statement before the call throws or when the awaited
\* call rejects, and the queue then counts a failed attempt.
SendDone(i, ok) ==
  /\ i \in DOMAIN tasks
  /\ ok => AttemptOf(i) \in tasks[i].calls
  /\ Done(i, ok)

SendRetry == \E i \in DOMAIN tasks : Retry(i)

NextSend ==
  \/ \E network \in Networks, networkType \in NetworkTypes :
       SendTransaction(network, networkType)
  \/ SendStart
  \/ \E i \in DOMAIN tasks : WalletSendTransaction(i)
  \/ \E i \in DOMAIN tasks, ok \in BOOLEAN : SendDone(i, ok)
  \/ SendRetry

SpecSend == InitQueue /\ [][NextSend]_vars

\* C36: for one sendTransaction request the signed transaction is submitted
\* to the upstream node (wallet.sendTransaction) at most once, whatever
\* errors the queue task reports and however the queue retries it.
C36_SubmittedAtMostOnce ==
  \A i \in DOMAIN tasks : Cardinality(tasks[i].calls) <= 1

(***************************************************************************)
(* CACHED READS AGAINST SEVERAL NETWORKS                                   *)
(***************************************************************************)
\* What the node of a network answers; the answer names the network it was
\* asked on.
Upstream(network, networkType) == "answer of " \o network \o ":" \o networkType

\* The outcome of the live call of a read against (network, networkType).
LiveOn(network, networkType, ok) ==
  IF ok THEN Upstream(network, networkType) ELSE "throw"

\* A cached read issued against (network, networkType): r is what
\* CachedRead made of it.
ReadOn(op, network, networkType, key, r) ==
  /\ stats.hits + stats.misses < MaxReadOps
  /\ cache' = r.cache
  /\ stats' = r.stats
  /\ ret' = [op |-> op, network |-> network, networkType |-> networkType,
             key |-> key, value |-> r.value, live |-> r.live]
  /\ UNCHANGED <<now, options, queueVars, hubVars>>

\* new CachedProvider(provider, network, networkType).getBalance(address),
\* likewise getCode, getTransaction, ...: _sendRpcRequest(method, [address])
\* on the provider of the network.
ProviderRead(network, networkType, method, address, ok) ==
  ReadOn("_sendRpcRequest", network, networkType,
         CreateKey(method, <<address>>),
         CachedRead(method, <<address>>, LiveOn(network, networkType, ok)))

\* getTokenBalance(address, tokenAddress, network, networkType)
TokenRead(address, tokenAddress, network, networkType, ok) ==
  LET params == <<address, tokenAddress, <<network>>, <<networkType>>>>
  IN  ReadOn("getTokenBalance", network, networkType,
             CreateKey(<<"tokenBalance">>, params),
             CachedRead(<<"tokenBalance">>, params,
                        LiveOn(network, networkType, ok)))

NextReadOn ==
  \/ \E network \in Networks, networkType \in NetworkTypes,
        method \in ReadMethods, ok \in BOOLEAN :
       ProviderRead(network, networkType, method, <<"0xA">>, ok)
  \/ \E network \in Networks, networkType \in NetworkTypes, ok \in BOOLEAN :
       TokenRead(<<"0xA">>, <<"0xTok">>, network, networkType, ok)
  \/ ReadTick

SpecReadOn == InitRpc /\ [][NextReadOn]_vars

\* C37: a value cached for a request issued against one (network,
\* networkType) is never returned for the same method and arguments issued
\* against a different (network, networkType): the cache key of every cached
\* read distinguishes the target network.
C37_NoCrossNetworkHit ==
  (ret.op \in {"_sendRpcRequest", "getTokenBalance"} /\ ret.live = 0) =>
    ret.value = Upstream(ret.network, ret.networkType)

(***************************************************************************)
(* getFromCache(method, key, callback, ttl)                                *)
(***************************************************************************)
\* What the callback gives: a string, a function, undefined, or it throws.
CallbackResults == {"v1", "function", Undefined, "throw"}
FromCacheKeys   == {<<"k1">>, <<"k2">>}
DefaultTtlArg   == 30

\* `${JSON.stringify(value)}` for a value that is no array: JSON.stringify
\* gives undefined for undefined and for a function, and the template
\* literal writes that as the text undefined; a string is quoted.
StringifyValue(value) ==
  IF value \in {Undefined, "function"} THEN <<"undefined">>
                                       ELSE Quote(<<value>>)

\* RpcCache.createKey(method, params) with such a value as params.
CreateKeyOfValue(method, params) == method \o <<":">> \o StringifyValue(params)

\* getFromCache(method, key, callback, ttl) at time now; result is what the
\* callback gives when it is called.  rpcCache.get(cacheKey) is
\* RpcCache.get(method = cacheKey, params = undefined), and
\* rpcCache.set(cacheKey, result, ttl) is RpcCache.set(method = cacheKey,
\* params = result, value = ttl).
GetFromCache(method, key, result, ttl) ==
  LET cacheKey == method \o <<":">> \o key
      g == MemoryGet(cache, stats, CreateKeyOfValue(cacheKey, Undefined), now)
      s == MemorySet(g.cache, g.stats, options,
                     CreateKeyOfValue(cacheKey, result), ttl,
                     GetTtl(cacheKey), now)
      call == [op |-> "getFromCache", key |-> cacheKey]
  IN  /\ stats.hits + stats.misses < MaxReadOps
      /\ IF g.path = "hit" /\ g.value # 0
           THEN /\ cache' = g.cache
                /\ stats' = g.stats
                /\ ret' = call @@ [value |-> ToString(g.value), called |-> FALSE]
           ELSE IF result = "throw"
             THEN /\ cache' = g.cache
                  /\ stats' = g.stats
                  /\ ret' = call @@ [value |-> "throw", called |-> TRUE]
             ELSE /\ cache' = s.cache
                  /\ stats' = s.stats
                  /\ ret' = call @@ [value |-> result, called |-> TRUE]
      /\ UNCHANGED <<now, options, queueVars, hubVars>>

NextFromCache ==
  \/ \E key \in FromCacheKeys, result \in CallbackResults :
       GetFromCache(<<"getBalance">>, key, result, DefaultTtlArg)
  \/ ReadTick

SpecFromCache == InitRpc /\ [][NextFromCache]_vars

\* The step is a call of getFromCache that directly follows, at the same
\* time, a call with the same method and key whose callback was invoked and
\* returned a truthy result.
SecondCall ==
  /\ ret.op = "getFromCache"
  /\ ret.called
  /\ ret.value \notin {Undefined, "throw"}
  /\ ret'.op = "getFromCache"
  /\ ret'.key = ret.key
  /\ stats'.hits + stats'.misses = stats.hits + stats.misses + 1

C38_Step == SecondCall => (~ret'.called /\ ret'.value = ret.value)

\* C38: getFromCache(method, key, callback, ttl) retrieves data from the
\* cache and calls the callback only if the data is not found: a second call
\* with the same method and key, made before the TTL has elapsed after a
\* first call whose callback returned a truthy result, returns that result
\* without invoking the callback.
C38_SecondCallFromCache == [][C38_Step]_vars

(***************************************************************************)
(* The fee caps of the predicted tiers                                     *)
(***************************************************************************)
\* C39: for every EIP-1559 fee data with bounded non-negative base fee and
\* priority fee, each tier returned by predictGasPrice (slow, standard,
\* fast) satisfies maxPriorityFeePerGas <= maxFeePerGas.
C39_PriorityWithinMaxFee ==
  (/\ ret.op = "predictGasPrice"
   /\ ret.fetched
   /\ Eip1559(ret.feeData)
   /\ ~ret.result.threw
   /\ ret.result.eip1559Supported) =>
    /\ ret.result.slow.maxPriorityFeePerGas <= ret.result.slow.maxFeePerGas
    /\ ret.result.standard.maxPriorityFeePerGas <= ret.result.standard.maxFeePerGas
    /\ ret.result.fast.maxPriorityFeePerGas <= ret.result.fast.maxFeePerGas

====
